---- MODULE Spec2Model ----
(***************************************************************************)
(* Model of utsuru, a WHIP-to-Discord live-stream bridge.                  *)
(*                                                                         *)
(* Spec          the WHIP coordinator (src/sources/whip.rs): the command   *)
(*               loop, the mirror directory (map + queue), the ingress     *)
(*               peers' ICE callbacks and the audio / video fan-out.       *)
(* SpecNotifier  one Discord mirror's Notifier and its four sub-tasks      *)
(*               (src/mirrors/discord/{mod,gateway,endpoint,heartbeat,     *)
(*               dave}.rs).                                                *)
(*                                                                         *)
(* Ids and queue positions are 0-based as in the source; TLA+ sequences    *)
(* are 1-based, so map[id] of the source is map[id + 1] here.              *)
(***************************************************************************)
EXTENDS Integers, Sequences, FiniteSets, TLC

\* ------------------------------------------------------------------ bounds
MaxMirrors == 3
MaxPeers == 2
MaxSamples == 2

\* ------------------------------------------------------------------- state
VARIABLES
    map,            \* WHIPInner.map: Vec<Option<usize>>
    mirrors,        \* WHIPInner.mirrors: VecDeque<(id, sink)>; the sink is the one admitted as id
    active,         \* `active` of the command loop (publisher_active)
    peers,          \* ingress peers created by init_peer, with their ICE callback's captures
    endRequests,    \* WHIPEvent::EndRequest messages in flight on the command channel
    emitted,        \* per media kind, number of samples the hot loop has handed to fan-out
    accepted,       \* history: a NewRequest was answered 201 and no EndRequest was processed since
    lastOp,         \* history: the operation that produced this state, its inputs and effects
    is_closed,      \* Notifier.is_closed
    handle,         \* Notifier.{gateway,endpoint,heartbeat,dave}: state of each tokio Notify
    task,           \* position of each sub-task of the mirror
    woken,          \* history: times each sub-task's notified() future completed
    closeCalls,     \* history: number of Notifier::close calls so far
    live,           \* position of the current call into DiscordLive's Mirror impl, and its outcome
    liveLog,        \* history: lock acquisitions, egress sends, track writes of DiscordLive calls, last sample written
    dave_instance,  \* DAVEInstance: dave_protocol_version, session readiness, last passthrough grace set
    dave,           \* locals of the DAVE task: dave_protocol_version, pending_transitions, is_downgraded
    daveLog,        \* history: op-23 sent per transition id, announcements handled, last event with its op-31 and reinit
    sps,            \* the SPS arm of write_video_sample: position, parsed SPS, bits written, SPS a decoder reads
    builder,        \* DiscordLiveBuilder::connect: the await it is at, its result, the traces it sent
    handoff,        \* per await of connect, the state of what it waits for
    trace_rx,       \* traces queued in the unbounded channel of create_mirror
    stream,         \* the response stream of create_mirror: position of its select!, mirror registered
    body,           \* chunks the response stream has yielded
    sb,             \* the SampleBuilder of one track's hot loop, once constructed
    sbLog,          \* history: packets pushed, samples pop returned, pop calls since the last push
    h264,           \* the H264Packet depacketizer: is_avc and fua_buffer, once constructed
    fuaLog,         \* history: bodies of the FU-A fragments since the last start bit, last packet and result
    join,           \* the DAVE start-up: the endpoint's session and remote_tx, the await connect is at, the DAVE task's instance and instance_tx
    dave_rx,        \* payloads queued on the unbounded channel to the DAVE task
    joinLog,        \* history: binary messages received, applied to the session, discarded; key packages sent
    evicted,        \* the fan-out has dropped the DiscordLive sink after a failed write
    conn,           \* DiscordLiveBuilder::connect as the owner of the notifier: the statement it is at and its result
    reneg,          \* the renegotiation task: the statement it is at, the remote description, the tracks at the senders and in the DAVE instance, the peer connection closed
    fed,            \* the DAVE task and the sample writer under arbitrary input: whether each has panicked, and the last input fed
    guards,         \* the two RwLocks of WHIPInner: holders and wait queue of each
    dirTask,        \* position of each task inside a WHIPInner method
    dirLog          \* history: calls started, peer built, ICE callback armed, directory left by add_mirror

whipVars == <<map, mirrors, active, peers, endRequests, emitted, accepted, lastOp>>
notifierVars == <<is_closed, handle, task, woken, closeCalls>>
liveVars == <<live, liveLog, dave_instance>>
vars == <<map, mirrors, active, peers, endRequests, emitted, accepted, lastOp,
          is_closed, handle, task, woken, closeCalls,
          live, liveLog, dave_instance, dave, daveLog, sps,
          builder, handoff, trace_rx, stream, body, sb, sbLog, h264, fuaLog, join, dave_rx, joinLog, evicted, conn, reneg, fed, guards, dirTask, dirLog>>
buildVars == <<builder, handoff, trace_rx, stream, body>>
daveVars == <<dave, daveLog>>
sampleVars == <<sb, sbLog>>
dirVars == <<guards, dirTask, dirLog>>
inputVars == <<fed>>
renegVars == <<reneg>>
connVars == <<conn>>
evictVars == <<evicted>>
joinVars == <<join, dave_rx, joinLog>>
codecVars == <<h264, fuaLog>>

\* what each specification leaves alone
outsideWhip == <<notifierVars, liveVars, daveVars, sps, buildVars, sampleVars, codecVars, joinVars, evictVars, connVars, renegVars, inputVars, dirVars>>
outsideNotifier == <<whipVars, liveVars, daveVars, sps, buildVars, sampleVars, codecVars, joinVars, evictVars, connVars, renegVars, inputVars, dirVars>>
outsideLive == <<whipVars, notifierVars, daveVars, sps, buildVars, sampleVars, codecVars, joinVars, evictVars, connVars, renegVars, inputVars, dirVars>>
outsideDave == <<whipVars, notifierVars, live, liveLog, sps, buildVars, sampleVars, codecVars, joinVars, evictVars, connVars, renegVars, inputVars, dirVars>>
outsideSps == <<whipVars, notifierVars, liveVars, daveVars, buildVars, sampleVars, codecVars, joinVars, evictVars, connVars, renegVars, inputVars, dirVars>>
outsideBuild == <<whipVars, notifierVars, liveVars, daveVars, sps, sampleVars, codecVars, joinVars, evictVars, connVars, renegVars, inputVars, dirVars>>
outsideSample == <<whipVars, notifierVars, liveVars, daveVars, sps, buildVars, codecVars, joinVars, evictVars, connVars, renegVars, inputVars, dirVars>>
outsideCodec == <<whipVars, notifierVars, liveVars, daveVars, sps, buildVars, sampleVars, joinVars, evictVars, connVars, renegVars, inputVars, dirVars>>
outsideJoin == <<whipVars, notifierVars, liveVars, daveVars, sps, buildVars, sampleVars, codecVars, evictVars, connVars, renegVars, inputVars, dirVars>>
outsideEvict == <<whipVars, notifierVars, liveVars, daveVars, sps, buildVars, sampleVars, codecVars, joinVars, connVars, renegVars, inputVars, dirVars>>
outsideConn == <<whipVars, liveVars, daveVars, sps, buildVars, sampleVars, codecVars, joinVars, evictVars, renegVars, inputVars, dirVars>>
outsideReneg == <<whipVars, notifierVars, liveVars, daveVars, sps, buildVars, sampleVars, codecVars, joinVars, evictVars, connVars, inputVars, dirVars>>
outsideInput == <<whipVars, notifierVars, liveVars, daveVars, sps, buildVars, sampleVars, codecVars, joinVars, evictVars, connVars, renegVars, dirVars>>
outsideDir == <<peers, endRequests, emitted, accepted, lastOp, notifierVars, liveVars, daveVars, sps, buildVars, sampleVars, codecVars, joinVars, evictVars, connVars, renegVars, inputVars>>

\* ---------------------------------------------------------------- Option<T>
None == {}
Some(x) == {x}
IsSome(o) == o # {}
Unwrap(o) == CHOOSE x \in o : TRUE

Kinds == {"audio", "video"}

\* ids of the entries of a queue
Ids(q) == {q[i] : i \in 1..Len(q)}

\* VecDeque::remove(index): the queue without the entry at 0-based index
RemoveAt(q, index) == [i \in 1..(Len(q) - 1) |-> IF i <= index THEN q[i] ELSE q[i + 1]]

NoOp == [op |-> "Init", id |-> -1, fails |-> {}, visited |-> <<>>, closed |-> {},
         resp |-> "none", peer |-> 0, sample |-> 0, view |-> <<>>]

\* ------------------------------------------------------- mirror directory
view_mirrors(m) == [i \in 1..Len(m) |-> IsSome(m[i])]

\* faulty variant: the id is taken from the queue length instead of the map length
add_mirror_queue_len(m, q) ==
    LET seq == Len(q)
        id == Len(q)
    IN [map |-> Append(m, Some(seq)), mirrors |-> Append(q, id), id |-> id]

add_mirror(m, q) ==
    LET seq == Len(q)
        id == Len(m)
    IN [map |-> Append(m, Some(seq)), mirrors |-> Append(q, id), id |-> id]

remove_mirror(m, q, id) ==
    IF id >= Len(m) THEN [map |-> m, mirrors |-> q, closed |-> {}]
    ELSE IF m[id + 1] = None THEN [map |-> m, mirrors |-> q, closed |-> {}]
    ELSE LET seq == Unwrap(m[id + 1]) IN
         IF seq >= Len(q) THEN [map |-> m, mirrors |-> q, closed |-> {}]
         ELSE [map |-> [m EXCEPT ![id + 1] = None],
               mirrors |-> RemoveAt(q, seq),
               closed |-> {q[seq + 1]}]

\* The loop shared by write_audio_sample, write_video_sample and
\* call_connected_callback: `for seq in 0..len`, pop the front, call the sink,
\* on Err clear the slot and drop the sink, on Ok store Some(seq) and push back.
\* fails is the set of sinks whose call returns Err in this pass.
RECURSIVE Rotate(_, _, _, _, _, _)
Rotate(seq, len, m, q, fails, visited) ==
    IF seq >= len THEN [map |-> m, mirrors |-> q, visited |-> visited]
    ELSE IF q = <<>> THEN Rotate(seq + 1, len, m, q, fails, visited)
    ELSE LET id == Head(q) IN
         IF id \in fails
         THEN Rotate(seq + 1, len, [m EXCEPT ![id + 1] = None], Tail(q), fails,
                     Append(visited, id))
         ELSE Rotate(seq + 1, len, [m EXCEPT ![id + 1] = Some(seq)], Append(Tail(q), id),
                     fails, Append(visited, id))

\* faulty variant: the result of the sink's write is ignored
write_audio_sample_ignore_err(m, q, fails) == Rotate(0, Len(q), m, q, {}, <<>>)

write_audio_sample(m, q, fails) == Rotate(0, Len(q), m, q, fails, <<>>)

\* faulty variant: the loop starts at 1, one mirror short
write_video_sample_short(m, q, fails) == Rotate(1, Len(q), m, q, fails, <<>>)

write_video_sample(m, q, fails) == Rotate(0, Len(q), m, q, fails, <<>>)

call_connected_callback(m, q, fails) == Rotate(0, Len(q), m, q, fails, <<>>)

\* ------------------------------------------------------------ command loop
NewPeer == [ice |-> "new", inner_ice |-> TRUE, inner_tx |-> TRUE]

\* faulty variant: `active = true` is reached although init_peer failed
NewRequest_active_on_error(initOk) ==
    /\ (~active /\ initOk) => Len(peers) < MaxPeers
    /\ IF active
       THEN /\ lastOp' = [NoOp EXCEPT !.op = "NewRequest", !.resp = "none"]
            /\ UNCHANGED <<active, peers>>
       ELSE IF ~initOk
       THEN /\ lastOp' = [NoOp EXCEPT !.op = "NewRequest", !.resp = "500"]
            /\ active' = TRUE
            /\ UNCHANGED peers
       ELSE /\ peers' = Append(peers, NewPeer)
            /\ lastOp' = [NoOp EXCEPT !.op = "NewRequest", !.resp = "201",
                                      !.peer = Len(peers) + 1]
            /\ active' = TRUE
    /\ accepted' = (accepted \/ lastOp'.resp = "201")
    /\ UNCHANGED <<map, mirrors, endRequests, emitted>>

\* faulty variant: a request that arrives while active is answered with an error status
NewRequest_reject_with_status(initOk) ==
    /\ (~active /\ initOk) => Len(peers) < MaxPeers
    /\ IF active
       THEN /\ lastOp' = [NoOp EXCEPT !.op = "NewRequest", !.resp = "500"]
            /\ UNCHANGED <<active, peers>>
       ELSE IF ~initOk
       THEN /\ lastOp' = [NoOp EXCEPT !.op = "NewRequest", !.resp = "500"]
            /\ UNCHANGED <<active, peers>>
       ELSE /\ peers' = Append(peers, NewPeer)
            /\ lastOp' = [NoOp EXCEPT !.op = "NewRequest", !.resp = "201",
                                      !.peer = Len(peers) + 1]
            /\ active' = TRUE
    /\ accepted' = (accepted \/ lastOp'.resp = "201")
    /\ UNCHANGED <<map, mirrors, endRequests, emitted>>

\* WHIPEvent::NewRequest; initOk is whether init_peer returns Ok
NewRequest(initOk) ==
    /\ (~active /\ initOk) => Len(peers) < MaxPeers
    /\ IF active
       THEN /\ lastOp' = [NoOp EXCEPT !.op = "NewRequest", !.resp = "none"]
            /\ UNCHANGED <<active, peers>>
       ELSE IF ~initOk
       THEN /\ lastOp' = [NoOp EXCEPT !.op = "NewRequest", !.resp = "500"]
            /\ UNCHANGED <<active, peers>>
       ELSE /\ peers' = Append(peers, NewPeer)
            /\ lastOp' = [NoOp EXCEPT !.op = "NewRequest", !.resp = "201",
                                      !.peer = Len(peers) + 1]
            /\ active' = TRUE
    /\ accepted' = (accepted \/ lastOp'.resp = "201")
    /\ UNCHANGED <<map, mirrors, endRequests, emitted>>

\* WHIPEvent::EndRequest
EndRequest ==
    /\ endRequests > 0
    /\ endRequests' = endRequests - 1
    /\ active' = FALSE
    /\ accepted' = FALSE
    /\ lastOp' = [NoOp EXCEPT !.op = "EndRequest"]
    /\ UNCHANGED <<map, mirrors, peers, emitted>>

\* WHIPEvent::RetrieveMirrors
RetrieveMirrors ==
    /\ lastOp' = [NoOp EXCEPT !.op = "RetrieveMirrors", !.view = view_mirrors(map)]
    /\ UNCHANGED <<map, mirrors, active, peers, endRequests, emitted, accepted>>

\* faulty variant: the connected-callback pass runs whether or not a publisher is active
NewMirror_always_callback ==
    /\ Len(map) < MaxMirrors
    /\ LET a == add_mirror(map, mirrors) IN
       \E fails \in SUBSET Ids(a.mirrors) :
         LET c == call_connected_callback(a.map, a.mirrors, fails) IN
         /\ map' = c.map
         /\ mirrors' = c.mirrors
         /\ lastOp' = [NoOp EXCEPT !.op = "NewMirror", !.id = a.id, !.fails = fails,
                                   !.visited = c.visited, !.resp = "done"]
    /\ UNCHANGED <<active, peers, endRequests, emitted, accepted>>

\* WHIPEvent::NewMirror
NewMirror ==
    /\ Len(map) < MaxMirrors
    /\ LET a == add_mirror(map, mirrors) IN
       IF active
       THEN \E fails \in SUBSET Ids(a.mirrors) :
              LET c == call_connected_callback(a.map, a.mirrors, fails) IN
              /\ map' = c.map
              /\ mirrors' = c.mirrors
              /\ lastOp' = [NoOp EXCEPT !.op = "NewMirror", !.id = a.id, !.fails = fails,
                                        !.visited = c.visited, !.resp = "done"]
       ELSE /\ map' = a.map
            /\ mirrors' = a.mirrors
            /\ lastOp' = [NoOp EXCEPT !.op = "NewMirror", !.id = a.id, !.resp = "done"]
    /\ UNCHANGED <<active, peers, endRequests, emitted, accepted>>

\* WHIPEvent::EndMirror
EndMirror(id) ==
    /\ LET r == remove_mirror(map, mirrors, id) IN
       /\ map' = r.map
       /\ mirrors' = r.mirrors
       /\ lastOp' = [NoOp EXCEPT !.op = "EndMirror", !.id = id, !.closed = r.closed,
                                 !.resp = "done"]
    /\ UNCHANGED <<active, peers, endRequests, emitted, accepted>>

\* ------------------------------------------------------------ ingress peer
\* on_track hot loop, audio arm: the next sample of the builder is fanned out
AudioSample(p, fails) ==
    /\ peers[p].ice = "connected"
    /\ emitted["audio"] < MaxSamples
    /\ LET r == write_audio_sample(map, mirrors, fails) IN
       /\ map' = r.map
       /\ mirrors' = r.mirrors
       /\ lastOp' = [NoOp EXCEPT !.op = "audio", !.fails = fails, !.visited = r.visited,
                                 !.peer = p, !.sample = emitted["audio"] + 1]
    /\ emitted' = [emitted EXCEPT !["audio"] = @ + 1]
    /\ UNCHANGED <<active, peers, endRequests, accepted>>

\* on_track hot loop, video arm
VideoSample(p, fails) ==
    /\ peers[p].ice = "connected"
    /\ emitted["video"] < MaxSamples
    /\ LET r == write_video_sample(map, mirrors, fails) IN
       /\ map' = r.map
       /\ mirrors' = r.mirrors
       /\ lastOp' = [NoOp EXCEPT !.op = "video", !.fails = fails, !.visited = r.visited,
                                 !.peer = p, !.sample = emitted["video"] + 1]
    /\ emitted' = [emitted EXCEPT !["video"] = @ + 1]
    /\ UNCHANGED <<active, peers, endRequests, accepted>>

\* on_ice_connection_state_change, Connected: the first time, inner_ice is
\* taken and every queued mirror's connected-callback is invoked
IceConnected(p, fails) ==
    /\ peers[p].ice \in {"new", "disconnected"}
    /\ IF peers[p].inner_ice
       THEN LET c == call_connected_callback(map, mirrors, fails) IN
            /\ map' = c.map
            /\ mirrors' = c.mirrors
            /\ lastOp' = [NoOp EXCEPT !.op = "IceConnected", !.fails = fails,
                                      !.visited = c.visited, !.peer = p]
       ELSE /\ fails = {}
            /\ lastOp' = [NoOp EXCEPT !.op = "IceConnected", !.peer = p]
            /\ UNCHANGED <<map, mirrors>>
    /\ peers' = [peers EXCEPT ![p].ice = "connected", ![p].inner_ice = FALSE]
    /\ UNCHANGED <<active, endRequests, emitted, accepted>>

\* on_ice_connection_state_change, Disconnected: the first time, inner_tx is
\* taken and EndRequest is sent on the command channel
IceDisconnected(p) ==
    /\ peers[p].ice = "connected"
    /\ peers' = [peers EXCEPT ![p].ice = "disconnected", ![p].inner_tx = FALSE]
    /\ endRequests' = IF peers[p].inner_tx THEN endRequests + 1 ELSE endRequests
    /\ lastOp' = [NoOp EXCEPT !.op = "IceDisconnected", !.peer = p]
    /\ UNCHANGED <<map, mirrors, active, emitted, accepted>>

\* on_ice_connection_state_change, Failed: pc is taken and the peer is closed
IceFailed(p) ==
    /\ peers[p].ice \in {"new", "disconnected"}
    /\ peers' = [peers EXCEPT ![p].ice = "closed"]
    /\ lastOp' = [NoOp EXCEPT !.op = "IceFailed", !.peer = p]
    /\ UNCHANGED <<map, mirrors, active, endRequests, emitted, accepted>>

\* ----------------------------------------------------------------- Notifier
MaxCloses == 2

Subsystems == {"gateway", "endpoint", "heartbeat", "dave"}

\* the builder starts the sub-tasks in this order
StartOrder == <<"gateway", "endpoint", "heartbeat", "dave">>

\* positions from which a sub-task returns through `?` or `return Ok(())`,
\* that is without reaching its trailing notifier.close()
SilentExits ==
    [gateway |-> {"teardown"}, endpoint |-> {"loop", "teardown"},
     heartbeat |-> {"loop"}, dave |-> {"loop"}]

\* tokio Notify::notify_one on the handle of s: a registered waiter is
\* notified, otherwise one permit is stored (a second permit is not)
notify_one(h, t, s) ==
    IF t[s].fut = "waiting"
    THEN [handle |-> "EMPTY", fut |-> "notified"]
    ELSE [handle |-> "NOTIFIED", fut |-> t[s].fut]

\* faulty variant: the DAVE handle is not notified
close_without_dave(h, t) ==
    [handle |-> [s \in Subsystems |->
                    IF s = "dave" THEN h[s] ELSE notify_one(h, t, s).handle],
     task |-> [s \in Subsystems |->
                  IF s = "dave" THEN t[s] ELSE [t[s] EXCEPT !.fut = notify_one(h, t, s).fut]],
     is_closed |-> TRUE]

\* Notifier::close
close(h, t) ==
    [handle |-> [s \in Subsystems |-> notify_one(h, t, s).handle],
     task |-> [s \in Subsystems |-> [t[s] EXCEPT !.fut = notify_one(h, t, s).fut]],
     is_closed |-> TRUE]

\* Notifier::is_closed
IsClosed == is_closed

\* drop of the pinned Notified future at the end of the task: a waiter is
\* unregistered, a notification that was delivered but not consumed is
\* handed back to the Notify
DropFuture(h, t, s) ==
    [handle |-> IF t[s].fut = "waiting" THEN "EMPTY"
                ELSE IF t[s].fut = "notified" THEN "NOTIFIED"
                ELSE h[s],
     fut |-> "dropped"]

NotifierInit ==
    /\ is_closed = FALSE
    /\ handle = [s \in Subsystems |-> "EMPTY"]
    /\ task = [s \in Subsystems |-> [pc |-> "idle", fut |-> "init"]]
    /\ woken = [s \in Subsystems |-> 0]
    /\ closeCalls = 0

\* tokio::spawn of the sub-task of s; notified() is created, not yet polled
StartTask(s) ==
    /\ task[s].pc = "idle"
    /\ \A i \in 1..Len(StartOrder) :
         StartOrder[i] = s => \A j \in 1..(i - 1) : task[StartOrder[j]].pc # "idle"
    /\ task' = [task EXCEPT ![s].pc = "loop"]
    /\ UNCHANGED <<is_closed, handle, woken, closeCalls>>

\* faulty variant: the notified() future never completes
PollNotified_never_ready(s) ==
    /\ task[s].pc = "loop"
    /\ task[s].fut \in {"init", "notified"}
    /\ handle' = [handle EXCEPT ![s] = "WAITING"]
    /\ task' = [task EXCEPT ![s].fut = "waiting"]
    /\ UNCHANGED <<is_closed, woken, closeCalls>>

\* the select! of the main loop polls the notified() future
PollNotified(s) ==
    /\ task[s].pc = "loop"
    /\ task[s].fut \in {"init", "notified"}
    /\ IF task[s].fut = "notified" \/ handle[s] = "NOTIFIED"
       THEN /\ handle' = [handle EXCEPT ![s] = IF task[s].fut = "init" THEN "EMPTY" ELSE @]
            /\ task' = [task EXCEPT ![s] = [pc |-> "teardown", fut |-> "done"]]
            /\ woken' = [woken EXCEPT ![s] = @ + 1]
       ELSE /\ handle' = [handle EXCEPT ![s] = "WAITING"]
            /\ task' = [task EXCEPT ![s].fut = "waiting"]
            /\ UNCHANGED woken
    /\ UNCHANGED <<is_closed, closeCalls>>

\* the main loop is left through a `break` other than the notified() branch
BreakLoop(s) ==
    /\ task[s].pc = "loop"
    /\ task' = [task EXCEPT ![s].pc = "teardown"]
    /\ UNCHANGED <<is_closed, handle, woken, closeCalls>>

\* the tail of the task: notifier.close(), then the task ends
Teardown(s) ==
    /\ task[s].pc = "teardown"
    /\ LET c == close(handle, task)
           d == DropFuture(c.handle, c.task, s) IN
       /\ handle' = [c.handle EXCEPT ![s] = d.handle]
       /\ task' = [c.task EXCEPT ![s] = [pc |-> "stopped", fut |-> d.fut]]
       /\ is_closed' = c.is_closed
    /\ closeCalls' = closeCalls + 1
    /\ UNCHANGED woken

\* the task returns early (`?` or `return Ok(())`): no close()
SilentExit(s) ==
    /\ task[s].pc \in SilentExits[s]
    /\ LET d == DropFuture(handle, task, s) IN
       /\ handle' = [handle EXCEPT ![s] = d.handle]
       /\ task' = [task EXCEPT ![s] = [pc |-> "stopped", fut |-> d.fut]]
    /\ UNCHANGED <<is_closed, woken, closeCalls>>

\* nonces of the heartbeat: two values stand for 0..JS_MAX_INT
Nonces == {"n1", "n2"}

\* the heartbeat loop after its op-3 with `nonce`: the op-6 ack carries
\* received_nonce; a different nonce returns Ok(()) out of the loop
HeartbeatAck(nonce, received_nonce) ==
    /\ task["heartbeat"].pc = "loop"
    /\ IF nonce # received_nonce
       THEN LET d == DropFuture(handle, task, "heartbeat") IN
            /\ handle' = [handle EXCEPT !["heartbeat"] = d.handle]
            /\ task' = [task EXCEPT !["heartbeat"] = [pc |-> "stopped", fut |-> d.fut]]
       ELSE UNCHANGED <<handle, task>>
    /\ UNCHANGED <<is_closed, woken, closeCalls>>

\* Mirror::close of DiscordLive, or notify.close() of a builder error path
MirrorClose ==
    /\ closeCalls < MaxCloses
    /\ LET c == close(handle, task) IN
       /\ handle' = c.handle
       /\ task' = c.task
       /\ is_closed' = c.is_closed
    /\ closeCalls' = closeCalls + 1
    /\ UNCHANGED woken

NextNotifier ==
    /\ \/ \E s \in Subsystems : StartTask(s)
       \/ \E s \in Subsystems : PollNotified(s)
       \/ \E s \in Subsystems : BreakLoop(s)
       \/ \E s \in Subsystems : Teardown(s)
       \/ \E s \in Subsystems : SilentExit(s)
       \/ \E nonce, received_nonce \in Nonces : HeartbeatAck(nonce, received_nonce)
       \/ MirrorClose
    /\ UNCHANGED outsideNotifier

\* -------------------------------------------------------------- DiscordLive
MaxCalls == 3

CallKinds == {"audio", "video", "callback"}

\* DAVEInstance::write_audio_sample: what is handed to local_audio_track
DAVEInstance_write_audio_sample(inst, encOk) ==
    IF inst.dave_protocol_version = 0 \/ ~inst.ready
    THEN [kind |-> "audio", bytes |-> "raw", sps |-> "none"]
    ELSE IF ~encOk
    THEN [kind |-> "audio", bytes |-> "raw", sps |-> "none"]
    ELSE [kind |-> "audio", bytes |-> "encrypted", sps |-> "none"]

\* faulty variant: a failed encrypt is not noticed
DAVEInstance_write_video_sample_ignore_encrypt(inst, hasSps, encOk) ==
    IF inst.dave_protocol_version = 0 \/ ~inst.ready
    THEN [kind |-> "video", bytes |-> "raw",
          sps |-> IF hasSps THEN "original" ELSE "none"]
    ELSE [kind |-> "video", bytes |-> "encrypted",
          sps |-> IF hasSps THEN "rewritten" ELSE "none"]

\* DAVEInstance::write_video_sample: what is handed to local_video_track. The
\* payload is written as it came on the early return and when encrypt fails;
\* otherwise the NAL units are rebuilt (SPS parsed, fixed, synthesised) and
\* the rebuilt stream is encrypted
DAVEInstance_write_video_sample(inst, hasSps, encOk) ==
    IF inst.dave_protocol_version = 0 \/ ~inst.ready
    THEN [kind |-> "video", bytes |-> "raw",
          sps |-> IF hasSps THEN "original" ELSE "none"]
    ELSE IF ~encOk
    THEN [kind |-> "video", bytes |-> "raw",
          sps |-> IF hasSps THEN "original" ELSE "none"]
    ELSE [kind |-> "video", bytes |-> "encrypted",
          sps |-> IF hasSps THEN "rewritten" ELSE "none"]

\* no sample written yet
NoSample == [kind |-> "none", bytes |-> "none", sps |-> "none", hasSps |-> FALSE,
             version |-> 0, ready |-> FALSE, encOk |-> FALSE]

LiveInit ==
    /\ live = [pc |-> "idle", kind |-> "none", entryClosed |-> FALSE, ret |-> "none", n |-> 0]
    /\ liveLog = [locks |-> 0, egress |-> 0, writes |-> 0, last |-> NoSample]
    /\ dave_instance = [dave_protocol_version |-> 1, ready |-> FALSE, passthrough |-> 0]

\* faulty variant: the call does not look at the notifier
LiveCall_unchecked(kind) ==
    /\ live.pc = "idle"
    /\ live.n < MaxCalls
    /\ live' = [pc |-> IF kind = "callback" THEN "send" ELSE "lock", kind |-> kind,
                entryClosed |-> IsClosed, ret |-> "pending", n |-> live.n + 1]
    /\ UNCHANGED <<liveLog, dave_instance>>

\* entry of write_audio_sample / write_video_sample / call_connected_callback
\* of DiscordLive: the is_closed() check
LiveCall(kind) ==
    /\ live.pc = "idle"
    /\ live.n < MaxCalls
    /\ IF IsClosed
       THEN live' = [pc |-> "idle", kind |-> kind, entryClosed |-> TRUE,
                     ret |-> "Err", n |-> live.n + 1]
       ELSE live' = [pc |-> IF kind = "callback" THEN "send" ELSE "lock", kind |-> kind,
                     entryClosed |-> FALSE, ret |-> "pending", n |-> live.n + 1]
    /\ UNCHANGED <<liveLog, dave_instance>>

\* self.dave_instance.write().await
LiveLock ==
    /\ live.pc = "lock"
    /\ live' = [live EXCEPT !.pc = "write"]
    /\ liveLog' = [liveLog EXCEPT !.locks = @ + 1]
    /\ UNCHANGED dave_instance

\* DAVEInstance::write_*_sample under the lock, then the call returns
LiveWrite(hasSps, encOk, trackOk) ==
    /\ live.pc = "write"
    /\ live.kind = "audio" => ~hasSps
    /\ LET w == IF live.kind = "audio"
                THEN DAVEInstance_write_audio_sample(dave_instance, encOk)
                ELSE DAVEInstance_write_video_sample(dave_instance, hasSps, encOk)
           rec == [kind |-> w.kind, bytes |-> w.bytes, sps |-> w.sps, hasSps |-> hasSps,
                   version |-> dave_instance.dave_protocol_version,
                   ready |-> dave_instance.ready, encOk |-> encOk] IN
       /\ liveLog' = [liveLog EXCEPT !.writes = IF trackOk THEN @ + 1 ELSE @,
                                     !.last = IF trackOk THEN rec ELSE @]
       /\ live' = [live EXCEPT !.pc = "idle", !.ret = IF trackOk THEN "Ok" ELSE "Err"]
    /\ UNCHANGED dave_instance

\* self.egress_tx.send(active) of call_connected_callback
LiveSend(ok) ==
    /\ live.pc = "send"
    /\ liveLog' = [liveLog EXCEPT !.egress = IF ok THEN @ + 1 ELSE @]
    /\ live' = [live EXCEPT !.pc = "idle", !.ret = IF ok THEN "Ok" ELSE "Err"]
    /\ UNCHANGED dave_instance

\* the DAVE task, holding the instance lock, sets the protocol version or
\* its session changes readiness
InstanceUpdate(version, ready) ==
    /\ live.pc # "write"
    /\ <<dave_instance.dave_protocol_version, dave_instance.ready>> # <<version, ready>>
    /\ dave_instance' = [dave_instance EXCEPT !.dave_protocol_version = version,
                                               !.ready = ready]
    /\ UNCHANGED <<live, liveLog>>

NextLive ==
    \/ /\ \/ \E kind \in CallKinds : LiveCall(kind)
          \/ LiveLock
          \/ \E hasSps \in BOOLEAN : \E encOk \in BOOLEAN : \E trackOk \in BOOLEAN :
                LiveWrite(hasSps, encOk, trackOk)
          \/ \E ok \in BOOLEAN : LiveSend(ok)
          \/ \E version \in 0..1 : \E ready \in BOOLEAN : InstanceUpdate(version, ready)
       /\ UNCHANGED outsideLive
    \/ MirrorClose /\ UNCHANGED outsideNotifier

\* ---------------------------------------------------------------- DAVE task
MaxTid == 2
MaxVersion == 1
MaxEvents == 4

Tids == 0..MaxTid
Versions == 0..MaxVersion

\* events whose arm answers with op-23 DAVE_TRANSITION_READY
Announcements == {"OpCode21", "Commit", "Welcome"}

\* what the arms of the DAVE task work on: the task's locals and, behind its
\* lock, the instance's protocol version and the session's passthrough grace
DaveState(d, inst) ==
    [dave_protocol_version |-> d.dave_protocol_version,
     pending_transitions |-> d.pending_transitions,
     is_downgraded |-> d.is_downgraded,
     instance_version |-> inst.dave_protocol_version,
     passthrough |-> inst.passthrough,
     op31 |-> None,
     reinit |-> FALSE]

\* faulty variant: every transition to version 0 counts as a downgrade
execute_pending_transition_any_zero(st, transition_id) ==
    IF ~IsSome(st.pending_transitions[transition_id])
    THEN st
    ELSE LET new_version == Unwrap(st.pending_transitions[transition_id])
             s1 == [st EXCEPT !.pending_transitions[transition_id] = None,
                              !.instance_version = new_version,
                              !.dave_protocol_version = new_version] IN
         IF new_version = 0
         THEN [s1 EXCEPT !.is_downgraded = TRUE]
         ELSE IF transition_id > 0 /\ st.is_downgraded
         THEN [s1 EXCEPT !.is_downgraded = FALSE, !.passthrough = 10]
         ELSE s1

execute_pending_transition(st, transition_id) ==
    LET old_version == st.dave_protocol_version IN
    IF ~IsSome(st.pending_transitions[transition_id])
    THEN st
    ELSE LET new_version == Unwrap(st.pending_transitions[transition_id])
             s1 == [st EXCEPT !.pending_transitions[transition_id] = None,
                              !.instance_version = new_version,
                              !.dave_protocol_version = new_version] IN
         IF old_version # new_version /\ new_version = 0
         THEN [s1 EXCEPT !.is_downgraded = TRUE]
         ELSE IF transition_id > 0 /\ st.is_downgraded
         THEN [s1 EXCEPT !.is_downgraded = FALSE, !.passthrough = 10]
         ELSE s1

\* reinit_dave_session on an existing instance: a new key package at a
\* non-zero version, otherwise session.reset() and a 10-packet passthrough
reinit_dave_session(st) ==
    IF st.dave_protocol_version > 0
    THEN [st EXCEPT !.reinit = TRUE]
    ELSE [st EXCEPT !.reinit = TRUE, !.passthrough = 10]

\* faulty variant: op-31 is sent and the session is left as it is
recover_from_invalid_commit_no_reinit(st, transition_id, sendOk) ==
    IF ~sendOk THEN st ELSE [st EXCEPT !.op31 = Some(transition_id)]

\* recover_from_invalid_commit: MLS_INVALID_COMMIT_WELCOME with transition_id
\* is sent (`?`: a failed send returns Err), then reinit_dave_session at the
\* task's dave_protocol_version; the session calls of the reinit are taken to
\* succeed
recover_from_invalid_commit(st, transition_id, sendOk) ==
    IF ~sendOk THEN st ELSE reinit_dave_session([st EXCEPT !.op31 = Some(transition_id)])

DaveInit ==
    /\ dave = [dave_protocol_version |-> 1,
               pending_transitions |-> [tid \in Tids |-> None],
               is_downgraded |-> FALSE,
               running |-> TRUE]
    /\ daveLog = [sent |-> [tid \in Tids |-> 0],
                  announced |-> [tid \in Tids |-> 0],
                  events |-> 0,
                  last |-> [ev |-> "none", tid |-> 0, version |-> 0, ok |-> TRUE, sendOk |-> TRUE],
                  op31 |-> None,
                  reinit |-> FALSE]

\* the end of an arm: the locals and the instance as the arm left them, the
\* task stopped if a send failed, and the history of the event e
DaveCommit(st, running, e, op23) ==
    /\ dave' = [dave_protocol_version |-> st.dave_protocol_version,
                pending_transitions |-> st.pending_transitions,
                is_downgraded |-> st.is_downgraded,
                running |-> running]
    /\ dave_instance' = [dave_instance EXCEPT !.dave_protocol_version = st.instance_version,
                                               !.passthrough = st.passthrough]
    /\ daveLog' = [sent |-> IF op23 /\ e.sendOk
                            THEN [daveLog.sent EXCEPT ![e.tid] = @ + 1]
                            ELSE daveLog.sent,
                   announced |-> IF e.ev \in Announcements /\ e.ok /\ e.sendOk
                                 THEN [daveLog.announced EXCEPT ![e.tid] = @ + 1]
                                 ELSE daveLog.announced,
                   events |-> daveLog.events + 1,
                   last |-> e,
                   op31 |-> st.op31,
                   reinit |-> st.reinit]

DaveReceives == dave.running /\ daveLog.events < MaxEvents

\* faulty variant: a transition that is already staged is not answered again
OpCode21_dedup(transition_id, protocol_version, sendOk) ==
    /\ DaveReceives
    /\ transition_id = 0 => sendOk
    /\ LET e == [ev |-> "OpCode21", tid |-> transition_id, version |-> protocol_version,
                 ok |-> TRUE, sendOk |-> sendOk]
           st0 == [DaveState(dave, dave_instance)
                      EXCEPT !.pending_transitions[transition_id] = Some(protocol_version)] IN
       IF transition_id = 0
       THEN DaveCommit(execute_pending_transition(st0, transition_id), TRUE, e, FALSE)
       ELSE DaveCommit([st0 EXCEPT !.passthrough = IF protocol_version = 0 THEN 30 ELSE @],
                       sendOk, e, ~IsSome(dave.pending_transitions[transition_id]))

\* DAVEPayload::OpCode21(transition_id, protocol_version)
OpCode21(transition_id, protocol_version, sendOk) ==
    /\ DaveReceives
    /\ transition_id = 0 => sendOk
    /\ LET e == [ev |-> "OpCode21", tid |-> transition_id, version |-> protocol_version,
                 ok |-> TRUE, sendOk |-> sendOk]
           st0 == [DaveState(dave, dave_instance)
                      EXCEPT !.pending_transitions[transition_id] = Some(protocol_version)] IN
       IF transition_id = 0
       THEN DaveCommit(execute_pending_transition(st0, transition_id), TRUE, e, FALSE)
       ELSE DaveCommit([st0 EXCEPT !.passthrough = IF protocol_version = 0 THEN 30 ELSE @],
                       sendOk, e, TRUE)

\* the MLS_ANNOUNCE_COMMIT_TRANSITION and MLS_WELCOME arms share their code:
\* process the message; on failure recover_from_invalid_commit (op-31, then
\* reinit), on success stage transition_id at the current version and answer
\* op-23 unless transition_id is 0
ProcessAnnouncement(ev, transition_id, ok, sendOk) ==
    /\ DaveReceives
    /\ (ok /\ transition_id = 0) => sendOk
    /\ LET e == [ev |-> ev, tid |-> transition_id, version |-> dave.dave_protocol_version,
                 ok |-> ok, sendOk |-> sendOk]
           st == DaveState(dave, dave_instance) IN
       IF ~ok
       THEN DaveCommit(recover_from_invalid_commit(st, transition_id, sendOk), sendOk, e, FALSE)
       ELSE IF transition_id # 0
       THEN DaveCommit([st EXCEPT !.pending_transitions[transition_id] =
                                      Some(st.dave_protocol_version)],
                       sendOk, e, TRUE)
       ELSE DaveCommit(st, TRUE, e, FALSE)

\* DAVEPayload::Binary, opcode MLS_ANNOUNCE_COMMIT_TRANSITION (29)
CommitTransition(transition_id, ok, sendOk) ==
    ProcessAnnouncement("Commit", transition_id, ok, sendOk)

\* DAVEPayload::Binary, opcode MLS_WELCOME (30)
Welcome(transition_id, ok, sendOk) ==
    ProcessAnnouncement("Welcome", transition_id, ok, sendOk)

\* DAVEPayload::OpCode22(transition_id)
OpCode22(transition_id) ==
    /\ DaveReceives
    /\ LET e == [ev |-> "OpCode22", tid |-> transition_id, version |-> 0,
                 ok |-> TRUE, sendOk |-> TRUE] IN
       DaveCommit(execute_pending_transition(DaveState(dave, dave_instance), transition_id),
                  TRUE, e, FALSE)

NextDave ==
    /\ \/ \E tid \in Tids : \E v \in Versions : \E sendOk \in BOOLEAN : OpCode21(tid, v, sendOk)
       \/ \E tid \in Tids : \E ok \in BOOLEAN : \E sendOk \in BOOLEAN :
             CommitTransition(tid, ok, sendOk)
       \/ \E tid \in Tids : \E ok \in BOOLEAN : \E sendOk \in BOOLEAN : Welcome(tid, ok, sendOk)
       \/ \E tid \in Tids : OpCode22(tid)
    /\ UNCHANGED outsideDave

\* ------------------------------------------------------------- SPS rewrite
MaxRefFrames == 2

\* write_u(1, flag): a flag is one bit
Bit(flag) == IF flag THEN 1 ELSE 0

\* an SPS, reduced to max_num_ref_frames, one field outside the VUI
\* (frame_cropping_flag), one VUI field outside the bitstream restriction
\* (pic_struct_present_flag) and the bitstream restriction subtree
Restriction(flag, mv, bytes, bits, h, v, reorder, buffering) ==
    [bitstream_restriction_flag |-> flag,
     motion_vectors_over_pic_boundaries_flag |-> mv,
     max_bytes_per_pic_denom |-> bytes,
     max_bits_per_mb_denom |-> bits,
     log2_max_mv_length_horizontal |-> h,
     log2_max_mv_length_vertical |-> v,
     max_num_reorder_frames |-> reorder,
     max_dec_frame_buffering |-> buffering]

\* the values of fields that are not in the bit stream
NoRestriction == Restriction(FALSE, FALSE, 0, 0, 0, 0, 0, 0)

Sps(refs, cropping, present, pic_struct, restriction) ==
    [max_num_ref_frames |-> refs,
     frame_cropping_flag |-> cropping,
     vui_parameters_present_flag |-> present,
     pic_struct_present_flag |-> pic_struct,
     vui_parameters |-> restriction]

NoSps == Sps(0, FALSE, FALSE, FALSE, NoRestriction)

\* vui_parameters of the synthesizer: the restriction fields are written only
\* behind a set bitstream_restriction_flag
vui_parameters(nalu) ==
    <<Bit(nalu.pic_struct_present_flag), Bit(nalu.vui_parameters.bitstream_restriction_flag)>>
    \o (IF nalu.vui_parameters.bitstream_restriction_flag
        THEN <<Bit(nalu.vui_parameters.motion_vectors_over_pic_boundaries_flag),
               nalu.vui_parameters.max_bytes_per_pic_denom,
               nalu.vui_parameters.max_bits_per_mb_denom,
               nalu.vui_parameters.log2_max_mv_length_horizontal,
               nalu.vui_parameters.log2_max_mv_length_vertical,
               nalu.vui_parameters.max_num_reorder_frames,
               nalu.vui_parameters.max_dec_frame_buffering>>
        ELSE <<>>)

\* seq_parameter_set_data / synthesize_sps: the VUI is written only behind a
\* set vui_parameters_present_flag
synthesize_sps(nalu) ==
    <<nalu.max_num_ref_frames, Bit(nalu.frame_cropping_flag),
      Bit(nalu.vui_parameters_present_flag)>>
    \o (IF nalu.vui_parameters_present_flag THEN vui_parameters(nalu) ELSE <<>>)

\* parse_sps: reads the fields in the order H.264 7.3.2.1.1 / E.1.1 gives
\* them; a field that is not in the bit stream keeps its default
parse_sps(bits) ==
    LET present == bits[3] = 1
        restricted == present /\ bits[5] = 1 IN
    Sps(bits[1], bits[2] = 1, present, present /\ bits[4] = 1,
        IF restricted
        THEN Restriction(TRUE, bits[6] = 1, bits[7], bits[8], bits[9], bits[10],
                         bits[11], bits[12])
        ELSE NoRestriction)

\* the SPS arm of write_video_sample: the VUI fix on the parsed SPS
fix_sps(parsed) ==
    IF ~parsed.vui_parameters.bitstream_restriction_flag
    THEN [parsed EXCEPT !.vui_parameters =
             Restriction(TRUE, TRUE, 2, 1, 16, 16, 0, parsed.max_num_ref_frames)]
    ELSE parsed

\* SPS NAL units an encoder may send
InputRestrictions ==
    {NoRestriction}
    \cup {Restriction(TRUE, mv, bytes, 1, 16, 16, reorder, 1) :
            mv \in BOOLEAN, bytes \in {0, 2}, reorder \in 0..1}

InputSps ==
    {Sps(refs, cropping, FALSE, FALSE, NoRestriction) :
        refs \in 0..MaxRefFrames, cropping \in BOOLEAN}
    \cup {Sps(refs[1], refs[2], TRUE, pic_struct, restriction) :
            refs \in (0..MaxRefFrames) \X BOOLEAN, pic_struct \in BOOLEAN,
            restriction \in InputRestrictions}

SpsInit ==
    sps = [pc |-> "idle", parsed |-> NoSps, bits |-> <<>>, decoded |-> NoSps]

\* a video sample with an SPS NAL unit reaches the arm: parse_sps(..).unwrap()
ParseSps(input) ==
    /\ sps.pc = "idle"
    /\ sps' = [pc |-> "parsed", parsed |-> parse_sps(synthesize_sps(input)),
               bits |-> <<>>, decoded |-> NoSps]

\* the VUI fix and synthesize_sps(&sps, &mut data, false)
RewriteSps ==
    /\ sps.pc = "parsed"
    /\ sps' = [sps EXCEPT !.pc = "written", !.bits = synthesize_sps(fix_sps(sps.parsed))]

\* the receiving decoder reads the SPS that was written
DecodeSps ==
    /\ sps.pc = "written"
    /\ sps' = [sps EXCEPT !.pc = "decoded", !.decoded = parse_sps(sps.bits)]

\* the next sample
NextSample ==
    /\ sps.pc = "decoded"
    /\ sps' = [pc |-> "idle", parsed |-> NoSps, bits |-> <<>>, decoded |-> NoSps]

NextSps ==
    /\ \/ \E input \in InputSps : ParseSps(input)
       \/ RewriteSps
       \/ DecodeSps
       \/ NextSample
    /\ UNCHANGED outsideSps

\* ------------------------------------------------- create_mirror and connect
\* what connect awaits, in program order: gateway::handle, then one hand-off
\* (or group of hand-offs and calls) before each further trace, and the
\* instance before it returns
Awaits ==
    <<"gateway::handle", "voice_rx", "rtcsrv_rx", "wsconn_rx", "feed_rx", "nego_rx",
      "remote_rx", "connected_rx", "instance_rx">>

\* faulty variant: the traces in the order the enum declares them
TraceOf_declared(at) ==
    <<"VoiceConnecting", "StreamCreating", "EndpointWSConnecting", "EndpointWSSDP",
      "EndpointRTCCreating", "EndpointRTCNegotiation", "EndpointRTCConnecting",
      "EndpointDAVECreating">>[at]

\* the trace sent once await number `at` has completed
TraceOf(at) ==
    <<"VoiceConnecting", "StreamCreating", "EndpointWSConnecting", "EndpointRTCCreating",
      "EndpointRTCNegotiation", "EndpointWSSDP", "EndpointRTCConnecting",
      "EndpointDAVECreating">>[at]

\* Display of DiscordLiveBuilderState
Display(trace) ==
    CASE trace = "VoiceConnecting" -> "connecting to voice channel"
      [] trace = "StreamCreating" -> "creating new live stream session"
      [] trace = "EndpointWSConnecting" -> "connecting to live stream endpoint"
      [] trace = "EndpointWSSDP" -> "waiting remote sdp from live stream endpoint"
      [] trace = "EndpointRTCCreating" -> "creating new rtc client"
      [] trace = "EndpointRTCNegotiation" ->
            "rtc client currently applying all changes still pending"
      [] trace = "EndpointRTCConnecting" ->
            "rtc client currently connecting to live stream endpoint"
      [] trace = "EndpointDAVECreating" -> "creating new dave session"

\* the await that must have completed before what await `at` waits for can
\* arrive: the gateway task is spawned by gateway::handle, the endpoint task
\* by endpoint::handle, the answer follows the offer, the instance follows
\* OpCode4
Producer(at) ==
    <<0, 1, 1, 1, 4, 4, 6, 7, 8>>[at]

BuildInit ==
    /\ builder = [at |-> 1, status |-> "running", traces |-> <<>>]
    /\ handoff = [at \in 1..Len(Awaits) |-> "pending"]
    /\ trace_rx = <<>>
    /\ stream = [pc |-> "select", recv_polled |-> FALSE, registered |-> FALSE]
    /\ body = <<>>

\* a sub-task (or the network) delivers what await `at` waits for, or drops
\* its sender
HandOff(at, ok) ==
    /\ handoff[at] = "pending"
    /\ Producer(at) > 0 => handoff[Producer(at)] = "received"
    /\ handoff' = [handoff EXCEPT ![at] = IF ok THEN "ready" ELSE "failed"]
    /\ UNCHANGED <<builder, trace_rx, stream, body>>

\* a poll of the select!: the branches are polled in a random order. The
\* recv branch, polled first, yields a queued trace as the next chunk
PollSelect(recv_first) ==
    /\ stream.pc = "select"
    /\ IF recv_first /\ trace_rx # <<>>
       THEN /\ body' = Append(body, Display(Head(trace_rx)))
            /\ trace_rx' = Tail(trace_rx)
            /\ UNCHANGED stream
       ELSE /\ stream' = [stream EXCEPT !.pc = "client", !.recv_polled = recv_first]
            /\ UNCHANGED <<body, trace_rx>>
    /\ UNCHANGED <<builder, handoff>>

\* the polled connect future passes an await and sends the next trace, or
\* returns Ok after the last one
BuilderAdvance ==
    /\ stream.pc = "client"
    /\ builder.status = "running"
    /\ handoff[builder.at] = "ready"
    /\ handoff' = [handoff EXCEPT ![builder.at] = "received"]
    /\ IF builder.at = Len(Awaits)
       THEN /\ builder' = [builder EXCEPT !.status = "ok"]
            /\ UNCHANGED trace_rx
       ELSE /\ builder' = [builder EXCEPT !.at = @ + 1,
                                          !.traces = Append(@, TraceOf(builder.at))]
            /\ trace_rx' = Append(trace_rx, TraceOf(builder.at))
    /\ UNCHANGED <<stream, body>>

\* the await fails (`?`, or the Err arm of a handle call): connect returns Err
BuilderFail ==
    /\ stream.pc = "client"
    /\ builder.status = "running"
    /\ handoff[builder.at] = "failed"
    /\ builder' = [builder EXCEPT !.status = "err"]
    /\ UNCHANGED <<handoff, trace_rx, stream, body>>

\* the await is pending: the client branch is Pending; the recv branch is
\* polled next unless it was polled first
BuilderPending ==
    /\ stream.pc = "client"
    /\ builder.status = "running"
    /\ handoff[builder.at] = "pending"
    /\ stream' = [stream EXCEPT !.pc = IF stream.recv_polled THEN "select" ELSE "recv"]
    /\ UNCHANGED <<builder, handoff, trace_rx, body>>

\* the recv branch polled after a pending client branch
PollRecv ==
    /\ stream.pc = "recv"
    /\ IF trace_rx # <<>>
       THEN /\ body' = Append(body, Display(Head(trace_rx)))
            /\ trace_rx' = Tail(trace_rx)
       ELSE UNCHANGED <<body, trace_rx>>
    /\ stream' = [stream EXCEPT !.pc = "select"]
    /\ UNCHANGED <<builder, handoff>>

\* the client branch completed: add_mirror on Ok, the last chunk, and the
\* stream's state becomes None
Terminal(add_ok) ==
    /\ stream.pc = "client"
    /\ builder.status # "running"
    /\ builder.status = "err" => add_ok
    /\ body' = Append(body, IF builder.status = "ok" /\ add_ok THEN "success" ELSE "error: ")
    /\ stream' = [stream EXCEPT !.pc = "done", !.registered = (builder.status = "ok" /\ add_ok)]
    /\ UNCHANGED <<builder, handoff, trace_rx>>

NextBuild ==
    /\ \/ \E at \in 1..Len(Awaits) : \E ok \in BOOLEAN : HandOff(at, ok)
       \/ \E recv_first \in BOOLEAN : PollSelect(recv_first)
       \/ BuilderAdvance
       \/ BuilderFail
       \/ BuilderPending
       \/ PollRecv
       \/ \E add_ok \in BOOLEAN : Terminal(add_ok)
    /\ UNCHANGED outsideBuild

\* ------------------------------------------------------------ SampleBuilder (utils/io.rs)
MaxSeq == 4        \* sequence numbers 1..MaxSeq
MaxPushes == 4     \* calls of push
MaxPops == 2       \* calls of pop between two pushes
MaxHoldBack == 2   \* hold_back of the builder, 0..MaxHoldBack
MaxLate == 1       \* how far behind the highest sequence number pushed a packet may arrive

\* RTP packets as the builder sees them: sequence number, timestamp, and what
\* the depacketizer answers for the payload (partition head, partition tail,
\* empty payload, depacketize error).
Seqs == 1..MaxSeq
PacketKinds == {"single", "single_ts1", "first", "last", "pad", "bad"}
Packet(seq, kind) ==
    [seq |-> seq,
     timestamp |-> CASE kind = "single_ts1" -> 1
                     [] kind = "last" -> seq - 1
                     [] OTHER -> seq,
     head |-> kind \in {"single", "single_ts1", "first", "bad"},
     tail |-> kind \in {"single", "single_ts1", "last", "bad"},
     empty |-> kind = "pad",
     err |-> kind \in {"pad", "bad"}]

SampleBuilder_new(hold_back, sample_rate) ==
    [hold_back |-> hold_back, queue |-> <<>>, last_emitted |-> None,
     depack_cache |-> None, ready |-> None, sample_rate |-> sample_rate, samples |-> 0]

\* index (1-based) at which the binary search of push finds or would insert seq
InsertAt(queue, seq) == Cardinality({i \in 1..Len(queue) : queue[i].seq < seq}) + 1

InsertEntry(queue, i, entry) ==
    [j \in 1..(Len(queue) + 1) |-> IF j < i THEN queue[j] ELSE IF j = i THEN entry ELSE queue[j - 1]]

\* SampleBuilder::push: the builder after the call and the value returned
push(s, rtp) ==
    IF IsSome(s.last_emitted) /\ rtp.seq <= Unwrap(s.last_emitted) /\ s.hold_back > 0
    THEN [builder |-> s, ret |-> FALSE]
    ELSE IF \E i \in 1..Len(s.queue) : s.queue[i].seq = rtp.seq
    THEN [builder |-> s, ret |-> TRUE]
    ELSE [builder |-> [s EXCEPT !.queue = InsertEntry(s.queue, InsertAt(s.queue, rtp.seq), rtp)],
          ret |-> TRUE]

\* one iteration of the loop of update_segments, at 0-based index; acc is
\* the start being tracked and the segments found so far
SegmentStep(acc, queue, index) ==
    LET entry == queue[index + 1]
        has == IsSome(acc.start)
        st == Unwrap(acc.start)
        is_expected_seq == has /\ st.offset + index = entry.seq
        is_same_timestamp == has /\ st.time = entry.timestamp
        is_defacto_tail == is_expected_seq /\ ~is_same_timestamp
        a1 == IF has /\ is_defacto_tail
              THEN [start |-> None, segments |-> Append(acc.segments, <<st.index, index - 1>>)]
              ELSE acc
        a2 == IF IsSome(a1.start) /\ (~is_expected_seq \/ ~is_same_timestamp)
              THEN [a1 EXCEPT !.start = None]
              ELSE a1
        a3 == IF ~IsSome(a2.start) /\ entry.head
              THEN [a2 EXCEPT !.start = Some([index |-> index, time |-> entry.timestamp,
                                              offset |-> entry.seq - index])]
              ELSE a2
    IN  IF IsSome(a3.start) /\ entry.tail
        THEN [start |-> None,
              segments |-> Append(a3.segments, <<Unwrap(a3.start).index, index>>)]
        ELSE a3

RECURSIVE SegmentScan(_, _, _)
SegmentScan(acc, queue, index) ==
    IF index >= Len(queue) THEN acc
    ELSE SegmentScan(SegmentStep(acc, queue, index), queue, index + 1)

\* SampleBuilder::update_segments: the (start, stop) pairs, 0-based
update_segments(queue) ==
    SegmentScan([start |-> None, segments |-> <<>>], queue, 0).segments

RECURSIVE PaddingRun(_, _, _)
\* the loop of is_following_last over the entries before start: the sequence
\* number reached, or 0 when an entry is not the next padding packet
PaddingRun(queue, seq, index) ==
    IF index = 0 THEN seq
    ELSE LET before == PaddingRun(queue, seq, index - 1)
             entry == queue[index]
         IN  IF before = 0 THEN 0
             ELSE IF entry.seq # before + 1 THEN 0
             ELSE IF ~(entry.empty /\ ~entry.head /\ ~entry.tail) THEN 0
             ELSE entry.seq

\* SampleBuilder::is_following_last, start 0-based
is_following_last(s, start) ==
    IF ~IsSome(s.last_emitted) THEN TRUE
    ELSE LET seq == PaddingRun(s.queue, Unwrap(s.last_emitted), start)
         IN  seq # 0 /\ s.queue[start + 1].seq = seq + 1

RECURSIVE Concat(_, _, _)
\* the depacketized payloads of entries start..=stop, joined; the payload of
\* a packet is written as its sequence number
Concat(queue, start, stop) ==
    IF start > stop THEN <<>>
    ELSE <<queue[start + 1].seq>> \o Concat(queue, start + 1, stop)

\* SampleBuilder::depacketize: Some((timestamp, data)), or None for Err
depacketize(s, start, stop) ==
    IF IsSome(s.depack_cache) /\ Unwrap(s.depack_cache).range = <<start, stop>>
    THEN Some(Unwrap(s.depack_cache).dep)
    ELSE IF \E i \in start..stop : s.queue[i + 1].err
    THEN None
    ELSE Some([timestamp |-> s.queue[start + 1].timestamp, data |-> Concat(s.queue, start, stop)])

\* faulty variant: drain(0..stop), which leaves the last entry of the segment queued
Drain_exclusive(queue, stop) == SubSeq(queue, stop + 1, Len(queue))

\* queue.drain(0..=stop)
Drain(queue, stop) == SubSeq(queue, stop + 2, Len(queue))

SaturatingSub(a, b) == IF a > b THEN a - b ELSE 0

\* faulty variant: the segments queued never reach hold_back
MoreThanHoldBack_never(s, segments) == FALSE

\* more_than_hold_back of pop
MoreThanHoldBack(s, segments) == Len(segments) >= s.hold_back

\* SampleBuilder::pop: the builder after the call and the sample returned
pop(s) ==
    LET segments == update_segments(s.queue)
    IN  IF segments = <<>> THEN [builder |-> s, ret |-> None]
        ELSE
        LET start == segments[1][1]
            stop == segments[1][2]
            seq == s.queue[stop + 1].seq
            dep == depacketize(s, start, stop)
            taken == [s EXCEPT !.depack_cache = None]
            more_than_hold_back == MoreThanHoldBack(s, segments)
            contiguous_seq == is_following_last(s, start)
            wait_for_contiguity == ~contiguous_seq /\ ~more_than_hold_back
        IN  IF ~IsSome(dep)
            THEN [builder |-> [taken EXCEPT !.last_emitted = Some(seq),
                                            !.queue = Drain(s.queue, stop)],
                  ret |-> None]
            ELSE IF wait_for_contiguity
            THEN [builder |-> [taken EXCEPT !.depack_cache =
                                   Some([range |-> <<start, stop>>, dep |-> Unwrap(dep)])],
                  ret |-> None]
            ELSE LET after_timestamp == Unwrap(dep).timestamp
                     diff == IF IsSome(s.ready)
                             THEN SaturatingSub(after_timestamp, Unwrap(s.ready).timestamp)
                             ELSE 0
                     samples == IF diff > 0 THEN diff ELSE s.samples
                 IN  [builder |-> [taken EXCEPT !.queue = Drain(s.queue, stop),
                                                !.last_emitted = Some(seq),
                                                !.ready = dep,
                                                !.samples = samples],
                      ret |-> IF IsSome(s.ready)
                              THEN Some([data |-> Unwrap(s.ready).data, duration |-> samples])
                              ELSE None]

\* what a call of pop on s emits, None when it emits nothing (no segment, a
\* depacketize error, or waiting for contiguity): `used` is the (timestamp,
\* data) pop moves into `ready`, `own` is the depacketization of the entries
\* start..=stop the emitted segment consists of
Emission(s) ==
    LET segments == update_segments(s.queue)
    IN  IF segments = <<>> THEN None
        ELSE
        LET start == segments[1][1]
            stop == segments[1][2]
            dep == depacketize(s, start, stop)
        IN  IF ~IsSome(dep) THEN None
            ELSE IF ~is_following_last(s, start) /\ ~MoreThanHoldBack(s, segments) THEN None
            ELSE Some([used |-> Unwrap(dep),
                       own |-> [timestamp |-> s.queue[start + 1].timestamp,
                                data |-> Concat(s.queue, start, stop)]])

SampleInit ==
    /\ sb = None
    /\ sbLog = [pushed |-> <<>>, returned |-> <<>>, pops |-> 0, interleaved |-> FALSE,
                last |-> "none", used |-> <<>>, own |-> <<>>]

\* SampleBuilder::new, as the hot loop of whip.rs calls it
NewBuilder(hold_back) ==
    /\ sb = None
    /\ sb' = Some(SampleBuilder_new(hold_back, 48000))
    /\ sbLog' = [sbLog EXCEPT !.last = "new"]

\* one call of push with a packet not pushed before, or pushed already; the
\* network reorders packets by at most MaxLate sequence numbers
Push(seq, kind) ==
    /\ IsSome(sb)
    /\ Len(sbLog.pushed) < MaxPushes
    /\ \A i \in 1..Len(sbLog.pushed) : seq + MaxLate >= sbLog.pushed[i].seq
    /\ \A i \in 1..Len(sbLog.pushed) :
           sbLog.pushed[i].seq = seq => sbLog.pushed[i] = Packet(seq, kind)
    /\ LET r == push(Unwrap(sb), Packet(seq, kind))
       IN  /\ sb' = Some(r.builder)
           /\ sbLog' = [sbLog EXCEPT !.pushed = Append(@, Packet(seq, kind)),
                                     !.interleaved = @ \/ sbLog.pops > 0,
                                     !.pops = 0,
                                     !.last = IF r.ret THEN "push" ELSE "push_false"]

\* one call of pop
Pop ==
    /\ IsSome(sb)
    /\ sbLog.pops < MaxPops
    /\ LET r == pop(Unwrap(sb))
           e == Emission(Unwrap(sb))
       IN  /\ sb' = Some(r.builder)
           /\ sbLog' = [sbLog EXCEPT !.returned = IF IsSome(r.ret) THEN Append(@, Unwrap(r.ret)) ELSE @,
                                     !.pops = @ + 1,
                                     !.last = IF IsSome(r.ret) THEN "pop_some" ELSE "pop_none",
                                     !.used = IF IsSome(e) THEN Append(@, Unwrap(e).used) ELSE @,
                                     !.own = IF IsSome(e) THEN Append(@, Unwrap(e).own) ELSE @]

NextSampleBuilder ==
    /\ \/ \E hold_back \in 0..MaxHoldBack : NewBuilder(hold_back)
       \/ \E seq \in Seqs, kind \in PacketKinds : Push(seq, kind)
       \/ Pop
    /\ UNCHANGED outsideSample

\* faulty variant: the builder is kept when push returns false
ReadRtp_keep_builder(seq, kind) ==
    /\ IsSome(sb)
    /\ sbLog.last \in {"new", "pop_none"}
    /\ Len(sbLog.pushed) < MaxPushes
    /\ \A i \in 1..Len(sbLog.pushed) : seq + MaxLate >= sbLog.pushed[i].seq
    /\ \A i \in 1..Len(sbLog.pushed) :
           sbLog.pushed[i].seq = seq => sbLog.pushed[i] = Packet(seq, kind)
    /\ LET r == push(Unwrap(sb), Packet(seq, kind))
       IN  /\ sb' = Some(r.builder)
           /\ sbLog' = [sbLog EXCEPT !.pushed = Append(@, Packet(seq, kind)),
                                     !.interleaved = TRUE,
                                     !.pops = 0,
                                     !.last = IF r.ret THEN "push" ELSE "push_false"]

\* the head of one iteration of the hot loop, entered when the drain loop of
\* the iteration before has ended: read_rtp, push, and a fresh builder when
\* push returned false
ReadRtp(seq, kind) ==
    /\ IsSome(sb)
    /\ sbLog.last \in {"new", "pop_none"}
    /\ Len(sbLog.pushed) < MaxPushes
    /\ \A i \in 1..Len(sbLog.pushed) : seq + MaxLate >= sbLog.pushed[i].seq
    /\ \A i \in 1..Len(sbLog.pushed) :
           sbLog.pushed[i].seq = seq => sbLog.pushed[i] = Packet(seq, kind)
    /\ LET r == push(Unwrap(sb), Packet(seq, kind))
       IN  /\ sb' = Some(IF r.ret THEN r.builder
                         ELSE SampleBuilder_new(Unwrap(sb).hold_back, Unwrap(sb).sample_rate))
           /\ sbLog' = [sbLog EXCEPT !.pushed = Append(@, Packet(seq, kind)),
                                     !.interleaved = TRUE,
                                     !.pops = 0,
                                     !.last = IF r.ret THEN "push" ELSE "push_false"]

\* `while let Some(payload) = s.pop() { write_sample(&payload).await }`: one
\* call of pop; the loop goes on while pop returns a sample
DrainPop ==
    /\ IsSome(sb)
    /\ sbLog.last \in {"push", "push_false", "pop_some"}
    /\ LET r == pop(Unwrap(sb))
           e == Emission(Unwrap(sb))
       IN  /\ sb' = Some(r.builder)
           /\ sbLog' = [sbLog EXCEPT !.returned = IF IsSome(r.ret) THEN Append(@, Unwrap(r.ret)) ELSE @,
                                     !.pops = @ + 1,
                                     !.last = IF IsSome(r.ret) THEN "pop_some" ELSE "pop_none",
                                     !.used = IF IsSome(e) THEN Append(@, Unwrap(e).used) ELSE @,
                                     !.own = IF IsSome(e) THEN Append(@, Unwrap(e).own) ELSE @]

NextHotLoop ==
    /\ \/ \E hold_back \in 0..MaxHoldBack : NewBuilder(hold_back)
       \/ \E seq \in Seqs, kind \in PacketKinds : ReadRtp(seq, kind)
       \/ DrainPop
    /\ UNCHANGED outsideSample

\* ------------------------------------------------------------ H264Packet (utils/codecs.rs)
MaxFuaBytes == 3   \* bytes fua_buffer may hold

\* b & NALU_TYPE_BITMASK, b & NALU_REF_IDC_BITMASK, and the FU header bits
NaluType(b) == b % 32
NaluRefIdc(b) == ((b \div 32) % 4) * 32
FuStart(b) == b >= 128
FuEnd(b) == (b \div 64) % 2 = 1

\* put_u32: four bytes, big endian
PutU32(n) == <<(n \div 16777216) % 256, (n \div 65536) % 256, (n \div 256) % 256, n % 256>>

\* the prefix of a NAL unit of n bytes: its length in AVC mode, else the Annex-B start code
NaluPrefix(is_avc, n) == IF is_avc THEN PutU32(n) ELSE <<0, 0, 0, 1>>

RECURSIVE StapA(_, _, _)
\* the loop of the STAP-A arm from curr_offset (0-based): Some(payload), or None for Err
StapA(is_avc, packet, curr_offset) ==
    IF curr_offset + 1 >= Len(packet) THEN Some(<<>>)
    ELSE LET nalu_size == packet[curr_offset + 1] * 256 + packet[curr_offset + 2]
             from == curr_offset + 2
         IN  IF from + nalu_size > Len(packet) THEN None
             ELSE LET rest == StapA(is_avc, packet, from + nalu_size)
                  IN  IF ~IsSome(rest) THEN None
                      ELSE Some(NaluPrefix(is_avc, nalu_size)
                                \o SubSeq(packet, from + 1, from + nalu_size)
                                \o Unwrap(rest))

\* H264Packet::depacketize: the depacketizer after the call, and Some(bytes) or None for Err
H264Packet_depacketize(self, packet) ==
    IF packet = <<>> THEN [self |-> self, ret |-> None]
    ELSE
    LET b0 == packet[1]
        nalu_type == NaluType(b0)
    IN  IF nalu_type \in 1..23
        THEN [self |-> self, ret |-> Some(NaluPrefix(self.is_avc, Len(packet)) \o packet)]
        ELSE IF nalu_type = 24
        THEN [self |-> self, ret |-> StapA(self.is_avc, packet, 1)]
        ELSE IF nalu_type = 28
        THEN IF Len(packet) < 2 THEN [self |-> self, ret |-> None]
             ELSE LET held == IF IsSome(self.fua_buffer) THEN Unwrap(self.fua_buffer) ELSE <<>>
                      fua_buffer == held \o SubSeq(packet, 3, Len(packet))
                      b1 == packet[2]
                  IN  IF FuEnd(b1)
                      THEN [self |-> [self EXCEPT !.fua_buffer = None],
                            ret |-> Some(NaluPrefix(self.is_avc, Len(fua_buffer) + 1)
                                         \o <<NaluRefIdc(b0) + NaluType(b1)>>
                                         \o fua_buffer)]
                      ELSE [self |-> [self EXCEPT !.fua_buffer = Some(fua_buffer)],
                            ret |-> Some(<<>>)]
        ELSE [self |-> self, ret |-> None]

\* payloads fed to the depacketizer: empty, single NAL unit (type 5), STAP-A
\* with a fitting and with an oversized length, FU-A header alone, FU-A
\* start / middle / end / start+end fragments of a type 5 NAL unit, FU-B
H264Payloads ==
    {<<>>, <<101, 170>>, <<120, 0, 1, 170>>, <<120, 0, 2, 170>>, <<124>>, <<125, 133, 170>>}
    \cup {<<124, b1, b2>> : b1 \in {133, 5, 69, 197}, b2 \in {170, 187}}
    \cup {<<124, 69>>}

CodecInit ==
    /\ h264 = None
    /\ fuaLog = [run |-> None, packet |-> <<>>, ret |-> None]

\* H264Packet::default() (is_avc false), or a depacketizer with is_avc set
NewDepacketizer(is_avc) ==
    /\ h264 = None
    /\ h264' = Some([is_avc |-> is_avc, fua_buffer |-> None])
    /\ UNCHANGED fuaLog

\* one call of depacketize; the history keeps the bodies of the FU-A
\* fragments fed from the last start-bit fragment on, until a packet that
\* is not an FU-A fragment or an end-bit fragment ends the run
Depacketize(packet) ==
    /\ IsSome(h264)
    /\ LET self == Unwrap(h264)
           r == H264Packet_depacketize(self, packet)
           isFua == Len(packet) >= 2 /\ NaluType(packet[1]) = 28
           fragment == SubSeq(packet, 3, Len(packet))
           held == IF IsSome(self.fua_buffer) THEN Len(Unwrap(self.fua_buffer)) ELSE 0
       IN  /\ isFua => held + Len(fragment) <= MaxFuaBytes
           /\ h264' = Some(r.self)
           /\ fuaLog' = [run |-> IF ~isFua THEN None
                                 ELSE IF FuStart(packet[2]) THEN Some(fragment)
                                 ELSE IF IsSome(fuaLog.run) /\ ~FuEnd(fuaLog.packet[2])
                                 THEN Some(Unwrap(fuaLog.run) \o fragment)
                                 ELSE None,
                         packet |-> packet,
                         ret |-> r.ret]

NextCodec ==
    /\ \/ \E is_avc \in BOOLEAN : NewDepacketizer(is_avc)
       \/ \E packet \in H264Payloads : Depacketize(packet)
    /\ UNCHANGED outsideCodec

\* ------------------------------------------------------------ DAVE start-up (endpoint.rs, mod.rs, dave.rs)
MaxBinaries == 3   \* binary messages the voice gateway sends

\* the n-th binary message of the voice gateway: the first is the MLS
\* external sender package, the later ones are MLS proposals
BinaryKind(n) == IF n = 1 THEN "MLS_EXTERNAL_SENDER" ELSE "MLS_PROPOSALS"

JoinInit ==
    /\ join = [session |-> None, remote_tx |-> TRUE, remote |-> None,
               connect |-> "remote_rx", version |-> 0, external_payload |-> 0,
               instance |-> None, instance_tx |-> TRUE, instance_rx |-> "empty",
               running |-> TRUE]
    /\ dave_rx = <<>>
    /\ joinLog = [op4 |-> None, binaries |-> 0, applied |-> <<>>, discarded |-> {},
                  key_packages |-> 0]

\* endpoint task, EndpointEvent::OpCode4: the session description is kept
EndpointOpCode4(dave_protocol_version) ==
    /\ ~IsSome(joinLog.op4)
    /\ join' = [join EXCEPT !.session = Some(dave_protocol_version)]
    /\ joinLog' = [joinLog EXCEPT !.op4 = Some(dave_protocol_version)]
    /\ UNCHANGED dave_rx

\* endpoint task, a binary message: the first one after the session
\* description goes to connect() with the session, every other one to the DAVE task
EndpointBinary ==
    /\ IsSome(joinLog.op4)
    /\ joinLog.binaries < MaxBinaries
    /\ LET item == joinLog.binaries + 1 IN
       /\ IF IsSome(join.session) /\ join.remote_tx
          THEN /\ join' = [join EXCEPT !.session = None, !.remote_tx = FALSE,
                                       !.remote = Some([dave_protocol_version |-> Unwrap(join.session),
                                                        external_payload |-> item])]
               /\ UNCHANGED dave_rx
          ELSE /\ dave_rx' = IF join.running
                             THEN Append(dave_rx, [op |-> "Binary", item |-> item, version |-> 0])
                             ELSE dave_rx
               /\ UNCHANGED join
       /\ joinLog' = [joinLog EXCEPT !.binaries = item]

\* connect(): remote_rx.await returns the answer SDP, the version and the external sender payload
ConnectRemote ==
    /\ join.connect = "remote_rx"
    /\ IsSome(join.remote)
    /\ join' = [join EXCEPT !.connect = "connected_rx",
                            !.version = Unwrap(join.remote).dave_protocol_version,
                            !.external_payload = Unwrap(join.remote).external_payload]
    /\ UNCHANGED <<dave_rx, joinLog>>

\* connect(): the remote description is set, ICE connects, the tracks are replaced
ConnectConnected ==
    /\ join.connect = "connected_rx"
    /\ join' = [join EXCEPT !.connect = "send_op4"]
    /\ UNCHANGED <<dave_rx, joinLog>>

\* connect(): dave_tx.send(OpCode4(..))?
ConnectSendOpCode4 ==
    /\ join.connect = "send_op4"
    /\ IF join.running
       THEN /\ dave_rx' = Append(dave_rx, [op |-> "OpCode4", item |-> 0, version |-> join.version])
            /\ join' = [join EXCEPT !.connect = "send_external"]
       ELSE /\ join' = [join EXCEPT !.connect = "failed"]
            /\ UNCHANGED dave_rx
    /\ UNCHANGED joinLog

\* connect(): dave_tx.send(Binary(external_payload))?, then the trace `creating new dave session`
ConnectSendExternal ==
    /\ join.connect = "send_external"
    /\ IF join.running
       THEN /\ dave_rx' = Append(dave_rx, [op |-> "Binary", item |-> join.external_payload,
                                           version |-> 0])
            /\ join' = [join EXCEPT !.connect = "instance_rx"]
       ELSE /\ join' = [join EXCEPT !.connect = "failed"]
            /\ UNCHANGED dave_rx
    /\ UNCHANGED joinLog

\* connect(): instance_rx.await? returns the instance, or an error once the sender is dropped
ConnectInstance ==
    /\ join.connect = "instance_rx"
    /\ join.instance_rx # "empty"
    /\ join' = [join EXCEPT !.connect = IF join.instance_rx = "sent" THEN "done" ELSE "failed"]
    /\ UNCHANGED <<dave_rx, joinLog>>

\* the DAVE task leaves its loop: notifier.close(), the task ends and drops
\* dave_rx and an instance_tx it still holds
DaveBreak(j) ==
    [j EXCEPT !.running = FALSE,
              !.instance_tx = FALSE,
              !.instance_rx = IF j.instance_tx THEN "dropped" ELSE @]

\* the DAVE task receives the next payload; ok is whether the session call
\* of the arm (and the send of the key package) succeeds
DaveRecv(ok) ==
    /\ join.running
    /\ dave_rx # <<>>
    /\ LET item == Head(dave_rx) IN
       IF item.op = "Binary" /\ IsSome(join.instance)
       THEN /\ join' = IF ok THEN join ELSE DaveBreak(join)
            /\ joinLog' = [joinLog EXCEPT !.applied = IF ok THEN Append(@, item.item) ELSE @]
            /\ dave_rx' = IF ok THEN Tail(dave_rx) ELSE <<>>
       ELSE IF item.op = "OpCode4" /\ ~IsSome(join.instance)
       THEN IF item.version = 0
            THEN /\ ok
                 /\ dave_rx' = Tail(dave_rx)
                 /\ UNCHANGED <<join, joinLog>>
            ELSE IF ~ok
            THEN /\ join' = DaveBreak(join)
                 /\ dave_rx' = <<>>
                 /\ UNCHANGED joinLog
            ELSE /\ join' = [join EXCEPT !.instance = Some(item.version),
                                         !.instance_tx = FALSE,
                                         !.instance_rx = IF join.instance_tx THEN "sent" ELSE @]
                 /\ joinLog' = [joinLog EXCEPT !.key_packages = @ + 1]
                 /\ dave_rx' = Tail(dave_rx)
       ELSE /\ ok
            /\ joinLog' = [joinLog EXCEPT !.discarded =
                               IF item.op = "Binary" THEN @ \cup {item.item} ELSE @]
            /\ dave_rx' = Tail(dave_rx)
            /\ UNCHANGED join

NextJoin ==
    /\ \/ \E dave_protocol_version \in Versions : EndpointOpCode4(dave_protocol_version)
       \/ EndpointBinary
       \/ ConnectRemote
       \/ ConnectConnected
       \/ ConnectSendOpCode4
       \/ ConnectSendExternal
       \/ ConnectInstance
       \/ \E ok \in BOOLEAN : DaveRecv(ok)
    /\ UNCHANGED outsideJoin

\* ------------------------------------------------------------ eviction of a DiscordLive sink (whip.rs, mod.rs)
EvictInit == evicted = FALSE

\* the sink is in the directory: connect() has returned it, so its four
\* tasks were spawned, and no call into it has failed yet
Queued == ~evicted /\ live.ret # "Err" /\ \A s \in Subsystems : task[s].pc # "idle"

\* the egress receiver lives in the endpoint task, so a send on egress_tx
\* fails only once that task has ended; a track write can fail at any time.
\* fan-out, `let Ok(_) = mirror.write_*_sample(payload).await else`: the slot
\* is set to None and the sink is not pushed back, which drops it
Evict ==
    /\ ~evicted
    /\ live.pc = "idle" /\ live.ret = "Err"
    /\ evicted' = TRUE

\* the sub-tasks run and end through the notifier only; two calls into the
\* sink are followed, enough for one that succeeds and one that fails
NextEvict ==
    \/ /\ \/ \E s \in Subsystems : StartTask(s)
          \/ \E s \in Subsystems : PollNotified(s)
          \/ \E s \in Subsystems : Teardown(s)
          \/ Queued /\ MirrorClose
       /\ UNCHANGED outsideNotifier
    \/ /\ Queued
       /\ \/ live.n < 2 /\ \E kind \in CallKinds : LiveCall(kind)
          \/ LiveLock
          \/ \E trackOk \in BOOLEAN : LiveWrite(FALSE, TRUE, trackOk)
          \/ LiveSend(task["endpoint"].pc # "stopped")
       /\ UNCHANGED outsideLive
    \/ Evict /\ UNCHANGED outsideEvict

\* ------------------------------------ connect as the owner of the notifier
\* the statements of connect at which it can return: each handle call
\* spawns one sub-task, each await group uses `?`
ConnectStages ==
    <<"gateway::handle", "voice_rx", "endpoint::handle", "feed_rx",
      "heartbeat::handle", "nego_rx", "dave::handle", "create_offer">>

\* the sub-task a handle call spawns
Spawned(stage) ==
    CASE stage = "gateway::handle" -> "gateway"
      [] stage = "endpoint::handle" -> "endpoint"
      [] stage = "heartbeat::handle" -> "heartbeat"
      [] stage = "dave::handle" -> "dave"

\* the sub-task holding the sender of a oneshot await: gateway for voice_rx,
\* rtcsrv_rx, wsconn_rx; endpoint for feed_rx, heartbeat_rx, nego_rx
Sender(stage) ==
    CASE stage = "voice_rx" -> "gateway"
      [] stage = "feed_rx" -> "endpoint"
      [] stage = "nego_rx" -> "endpoint"

ConnInit == conn = [at |-> 1, result |-> "running"]

\* `if let Err(e) = x::handle(&notify, ...).await { notify.close(); return Err }`:
\* handle spawns its task and returns Ok, or fails before the spawn
ConnectHandle(ok) ==
    /\ conn.result = "running"
    /\ ConnectStages[conn.at] \in {"gateway::handle", "endpoint::handle",
                                   "heartbeat::handle", "dave::handle"}
    /\ IF ok
       THEN /\ StartTask(Spawned(ConnectStages[conn.at]))
            /\ conn' = [conn EXCEPT !.at = @ + 1]
       ELSE /\ LET c == close(handle, task) IN
               /\ handle' = c.handle
               /\ task' = c.task
               /\ is_closed' = c.is_closed
            /\ closeCalls' = closeCalls + 1
            /\ conn' = [conn EXCEPT !.result = "err"]
            /\ UNCHANGED woken

\* a statement with `?`: a oneshot receive fails once its sender was dropped
\* by a sub-task that ended; from create_offer on, WebRTC, SDP, id parse and
\* channel send errors need no sub-task to have ended. The error is returned
\* as it is; after the last statement connect returns the DiscordLive
ConnectAwait(ok) ==
    /\ conn.result = "running"
    /\ ConnectStages[conn.at] \in {"voice_rx", "feed_rx", "nego_rx", "create_offer"}
    /\ IF ok
       THEN conn' = IF conn.at = Len(ConnectStages)
                    THEN [conn EXCEPT !.result = "ok"]
                    ELSE [conn EXCEPT !.at = @ + 1]
       ELSE /\ ConnectStages[conn.at] # "create_offer"
               => task[Sender(ConnectStages[conn.at])].pc = "stopped"
            /\ conn' = [conn EXCEPT !.result = "err"]
    /\ UNCHANGED notifierVars

\* connect with the sub-tasks it spawned; every sub-task that leaves its loop
\* here does so through its trailing notifier.close()
NextConn ==
    \/ /\ \/ \E ok \in BOOLEAN : ConnectHandle(ok)
          \/ \E ok \in BOOLEAN : ConnectAwait(ok)
       /\ UNCHANGED outsideConn
    \/ /\ \/ \E s \in Subsystems : PollNotified(s)
          \/ \E s \in Subsystems : BreakLoop(s)
          \/ \E s \in Subsystems : Teardown(s)
       /\ UNCHANGED outsideNotifier

\* ------------------------------------------- renegotiation task of connect
MaxTracks == 3     \* identities a fresh local track may take before they repeat

\* the statements of one iteration, in program order
RenegOrder ==
    <<"inactive", "audio_sender", "audio_instance", "video_sender", "video_instance", "recv">>

\* Arc::new(TrackLocalStaticSample::new(..)): a track that is not `track`
NewTrack(track) == (track % MaxTracks) + 1

\* the task as spawned: connect has set the recv SDP, attached the first
\* tracks to the senders and handed the same tracks to the DAVE instance
RenegInit ==
    reneg = [at |-> "sleep", remote |-> "recv",
             sender |-> [audio |-> 0, video |-> 0],
             instance |-> [audio |-> 0, video |-> 0],
             local_audio_track |-> 0, local_video_track |-> 0,
             peer_closed |-> FALSE, steps |-> <<>>, iterations |-> 0]

\* `let Ok(_) = .. else { break; }`: the task ends
RenegBreak(r) == [r EXCEPT !.at = "stopped"]

\* sleep(300 s) has elapsed
RenegWake ==
    /\ reneg.at = "sleep"
    /\ reneg' = [reneg EXCEPT !.at = "inactive", !.steps = <<>>]

\* peer_connection.set_remote_description(inactive_sdp); a closed peer
\* connection refuses it
RenegInactive(ok) ==
    /\ reneg.at = "inactive"
    /\ reneg.peer_closed => ~ok
    /\ reneg' = IF ok
                THEN [reneg EXCEPT !.remote = "inactive", !.at = "audio_sender",
                                   !.steps = Append(@, "inactive")]
                ELSE RenegBreak(reneg)

\* a fresh audio track and audio_rtp_sender.replace_track
RenegAudioSender(ok) ==
    /\ reneg.at = "audio_sender"
    /\ LET track == NewTrack(reneg.sender.audio) IN
       reneg' = IF ok
                THEN [reneg EXCEPT !.local_audio_track = track, !.sender.audio = track,
                                   !.at = "audio_instance",
                                   !.steps = Append(@, "audio_sender")]
                ELSE RenegBreak([reneg EXCEPT !.local_audio_track = track])

\* instance_lock.write().await.replace_audio_track(local_audio_track)
RenegAudioInstance ==
    /\ reneg.at = "audio_instance"
    /\ reneg' = [reneg EXCEPT !.instance.audio = reneg.local_audio_track,
                              !.at = "video_sender",
                              !.steps = Append(@, "audio_instance")]

\* a fresh video track and video_rtp_sender.replace_track
RenegVideoSender(ok) ==
    /\ reneg.at = "video_sender"
    /\ LET track == NewTrack(reneg.sender.video) IN
       reneg' = IF ok
                THEN [reneg EXCEPT !.local_video_track = track, !.sender.video = track,
                                   !.at = "video_instance",
                                   !.steps = Append(@, "video_sender")]
                ELSE RenegBreak([reneg EXCEPT !.local_video_track = track])

\* instance_lock.write().await.replace_video_track(local_video_track)
RenegVideoInstance ==
    /\ reneg.at = "video_instance"
    /\ reneg' = [reneg EXCEPT !.instance.video = reneg.local_video_track,
                              !.at = "recv",
                              !.steps = Append(@, "video_instance")]

\* faulty variant: a refused recv SDP does not end the loop
RenegRecv_ignore_err(ok) ==
    /\ reneg.at = "recv"
    /\ reneg.peer_closed => ~ok
    /\ reneg' = IF ok
                THEN [reneg EXCEPT !.remote = "recv", !.at = "sleep",
                                   !.steps = Append(@, "recv"),
                                   !.iterations = IF @ < 2 THEN @ + 1 ELSE @]
                ELSE [reneg EXCEPT !.at = "sleep"]

\* peer_connection.set_remote_description(recv_sdp), the end of the iteration
RenegRecv(ok) ==
    /\ reneg.at = "recv"
    /\ reneg.peer_closed => ~ok
    /\ reneg' = IF ok
                THEN [reneg EXCEPT !.remote = "recv", !.at = "sleep",
                                   !.steps = Append(@, "recv"),
                                   !.iterations = IF @ < 2 THEN @ + 1 ELSE @]
                ELSE RenegBreak(reneg)

\* the ICE state of the egress peer becomes Failed: the callback closes the
\* peer connection
PeerIceFailed ==
    /\ ~reneg.peer_closed
    /\ reneg' = [reneg EXCEPT !.peer_closed = TRUE]

\* the renegotiation task next to DiscordLive::close
NextReneg ==
    \/ /\ \/ RenegWake
          \/ \E ok \in BOOLEAN : RenegInactive(ok)
          \/ \E ok \in BOOLEAN : RenegAudioSender(ok)
          \/ RenegAudioInstance
          \/ \E ok \in BOOLEAN : RenegVideoSender(ok)
          \/ RenegVideoInstance
          \/ \E ok \in BOOLEAN : RenegRecv(ok)
          \/ PeerIceFailed
       /\ UNCHANGED outsideReneg
    \/ MirrorClose /\ UNCHANGED outsideNotifier

\* ----------------------------- the DAVE task and the sample writer on any input
MaxBinaryLen == 5  \* bytes of a binary message handed to the DAVE task
MaxSampleLen == 4  \* bytes of a video sample handed to write_video_sample

\* bytes that matter to the Binary arm: operation types 0 and 1, the opcodes
\* MLS_EXTERNAL_SENDER, MLS_PROPOSALS, MLS_ANNOUNCE_COMMIT_TRANSITION,
\* MLS_WELCOME, and one other value
DaveBytes == {0, 1, 2, 25, 27, 29, 30}

\* bytes that matter to the NAL scan: 0 and 1 of a start code, a value above
\* START_CODE_HIGHEST_POSSIBLE_VALUE, an SPS header (0x67) and an IDR header (0x65)
VideoBytes == {0, 1, 2, 103, 101}

SeqsUpTo(S, n) == UNION {[1..k -> S] : k \in 0..n}

\* payload[i] with a 0-based index: None is the index-out-of-bounds panic
ByteAt(payload, i) == IF i < Len(payload) THEN Some(payload[i + 1]) ELSE None

\* &payload[i..]: None is the slice-start-out-of-range panic
SliceFrom(payload, i) ==
    IF i <= Len(payload) THEN Some(SubSeq(payload, i + 1, Len(payload))) ELSE None

\* the arm `(DAVEPayload::Binary(payload), Some(dave_instance))` of the DAVE
\* task, up to the call into the session: which branch the message takes, or
\* "panic" when an index or slice is out of range
DaveBinaryArm(payload, has_instance) ==
    IF ~has_instance THEN "ignored"
    ELSE IF Len(payload) < 3 THEN "continue"
    ELSE CASE payload[3] = 25 ->
                IF ~IsSome(SliceFrom(payload, 3)) THEN "panic" ELSE "external_sender"
           [] payload[3] = 27 ->
                IF ~IsSome(ByteAt(payload, 3)) THEN "panic"
                ELSE IF Unwrap(ByteAt(payload, 3)) \notin {0, 1} THEN "continue"
                ELSE IF ~IsSome(SliceFrom(payload, 4)) THEN "panic"
                ELSE "proposals"
           [] payload[3] \in {29, 30} ->
                IF ~IsSome(ByteAt(payload, 3)) \/ ~IsSome(ByteAt(payload, 4)) THEN "panic"
                ELSE IF ~IsSome(SliceFrom(payload, 5)) THEN "panic"
                ELSE IF payload[3] = 29 THEN "commit" ELSE "welcome"
           [] OTHER -> "ignored"

\* payload.data.len() - NALU_SHORT_START_SEQUENCE_SIZE on usize: None is the
\* overflow panic of a build with overflow checks, otherwise the difference
\* wraps; usize is narrowed to 8 bits here, which keeps every wrapped value
\* above the lengths of the samples fed
ScanLimit(len, overflow_checks) ==
    IF len >= 3 THEN Some(len - 3)
    ELSE IF overflow_checks THEN None
    ELSE Some((256 + len - 3) % 256)

RECURSIVE NaluScan(_, _, _, _)
\* the `while i < limit` loop of write_video_sample: the (index, start code
\* size) pairs found, None when payload.data[i + 2] is out of bounds
NaluScan(data, i, limit, nalu_indexes) ==
    IF ~(i < limit) THEN Some(nalu_indexes)
    ELSE IF ~IsSome(ByteAt(data, i + 2)) THEN None
    ELSE IF data[i + 3] > 1 THEN NaluScan(data, i + 3, limit, nalu_indexes)
    ELSE IF data[i + 2] # 0 THEN NaluScan(data, i + 2, limit, nalu_indexes)
    ELSE IF data[i + 1] # 0 \/ data[i + 3] # 1 THEN NaluScan(data, i + 1, limit, nalu_indexes)
    ELSE NaluScan(data, i + 3, limit,
                  Append(nalu_indexes,
                         IF i >= 1 /\ data[i] = 0 THEN <<i - 1, 4>> ELSE <<i, 3>>))

\* DAVEInstance::write_video_sample up to session.encrypt: "raw" for the
\* early write, "panic" for an overflow, an index out of bounds or the
\* unwrap of a failed parse_sps, else "scanned"
WriteVideoOutcome(data, passthrough, overflow_checks, sps_ok) ==
    IF passthrough THEN "raw"
    ELSE LET limit == ScanLimit(Len(data), overflow_checks)
         IN  IF ~IsSome(limit) THEN "panic"
             ELSE LET found == NaluScan(data, 0, Unwrap(limit), <<>>)
                  IN  IF ~IsSome(found) THEN "panic"
                      ELSE IF \E pos \in 1..Len(Unwrap(found)) :
                                  LET nalu == Unwrap(found)[pos][1]
                                      start_size == Unwrap(found)[pos][2]
                                      header == ByteAt(data, nalu + start_size)
                                  IN  \/ ~IsSome(header)
                                      \/ Unwrap(header) % 32 = 7 /\ ~sps_ok
                      THEN "panic"
                      ELSE "scanned"

InputInit ==
    fed = [dave |-> "running", writer |-> "running",
           last |-> [to |-> "none", bytes |-> <<>>, outcome |-> "none"]]

\* the DAVE task receives DAVEPayload::Binary(payload)
FeedBinary(payload, has_instance) ==
    /\ fed.dave = "running"
    /\ LET outcome == DaveBinaryArm(payload, has_instance) IN
       fed' = [fed EXCEPT !.dave = IF outcome = "panic" THEN "panicked" ELSE @,
                          !.last = [to |-> "dave", bytes |-> payload, outcome |-> outcome]]

\* the fan-out calls write_video_sample with a sample of these bytes
FeedVideo(data, passthrough, overflow_checks, sps_ok) ==
    /\ fed.writer = "running"
    /\ LET outcome == WriteVideoOutcome(data, passthrough, overflow_checks, sps_ok) IN
       fed' = [fed EXCEPT !.writer = IF outcome = "panic" THEN "panicked" ELSE @,
                          !.last = [to |-> "writer", bytes |-> data, outcome |-> outcome]]

\* how an input is handled does not depend on the inputs before it: a
\* behaviour feeds one
NextInput ==
    /\ fed.last.to = "none"
    /\ \/ \E payload \in SeqsUpTo(DaveBytes, MaxBinaryLen) : \E has_instance \in BOOLEAN :
              FeedBinary(payload, has_instance)
       \/ \E data \in SeqsUpTo(VideoBytes, MaxSampleLen) :
              \E passthrough, overflow_checks, sps_ok \in BOOLEAN :
                  FeedVideo(data, passthrough, overflow_checks, sps_ok)
    /\ UNCHANGED outsideInput

\* ------------------------------------------- locks of the mirror directory
MaxDirOps == 4  \* WHIPInner calls started in one behaviour

DirTasks == {"command", "audio", "video", "ice"}
DirLocks == {"map", "mirrors"}
Passes == {"write_audio_sample", "write_video_sample", "call_connected_callback"}

IdleTask == [pc |-> "idle", op |-> "none", id |-> 0, seen |-> None]
FreeLock == [holders |-> {}, waiters |-> <<>>]

\* RwLock::write() / RwLock::read(): the caller joins the lock's wait queue
Enqueue(g, lock, t) == [g EXCEPT ![lock].waiters = Append(@, t)]

\* the lock is granted in the order of the wait queue: a writer when nobody
\* holds it, a reader when no writer holds it
Grantable(g, lock, t, mode) ==
    /\ g[lock].waiters # <<>>
    /\ Head(g[lock].waiters) = t
    /\ IF mode = "write" THEN g[lock].holders = {}
       ELSE \A h \in g[lock].holders : h.mode = "read"

Grant(g, lock, t, mode) ==
    [g EXCEPT ![lock].waiters = Tail(@),
              ![lock].holders = @ \cup {[task |-> t, mode |-> mode]}]

\* the guards of t go out of scope
Release(g, t) ==
    [lock \in DirLocks |-> [g[lock] EXCEPT !.holders = {h \in @ : h.task # t}]]

Holds(g, lock, t) == \E h \in g[lock].holders : h.task = t

DirInit ==
    /\ guards = [lock \in DirLocks |-> FreeLock]
    /\ dirTask = [t \in DirTasks |-> IdleTask]
    /\ dirLog = [ops |-> 0, peer |-> FALSE, inner_ice |-> FALSE, after_add |-> None]

\* WHIPEvent::NewRequest accepted: the peer is built with its on_track and ICE
\* callbacks, then `active = true`
DirNewRequest ==
    /\ dirTask["command"].pc = "idle"
    /\ ~active
    /\ active' = TRUE
    /\ dirLog' = [dirLog EXCEPT !.peer = TRUE, !.inner_ice = TRUE]
    /\ UNCHANGED <<map, mirrors, guards, dirTask>>

\* WHIPEvent::EndRequest
DirEndRequest ==
    /\ dirTask["command"].pc = "idle"
    /\ active
    /\ active' = FALSE
    /\ UNCHANGED <<map, mirrors, guards, dirTask, dirLog>>

\* a task calls a method of WHIPInner, which starts with `self.map.write().await`
\* (`self.map.read().await` in view_mirrors)
Call(t, op, id) ==
    /\ dirTask[t].pc = "idle"
    /\ dirLog.ops < MaxDirOps
    /\ dirTask' = [dirTask EXCEPT ![t] = [pc |-> "want_map", op |-> op, id |-> id,
                                          seen |-> None]]
    /\ guards' = Enqueue(guards, "map", t)
    /\ UNCHANGED <<map, mirrors, active>>

\* the command loop takes NewMirror, EndMirror(id) or RetrieveMirrors
DirCommand(op, id) ==
    /\ op \in {"add_mirror", "remove_mirror", "view_mirrors"}
    /\ op = "add_mirror" => Len(map) < MaxMirrors
    /\ Call("command", op, id)
    /\ dirLog' = [dirLog EXCEPT !.ops = @ + 1]

\* an on_track task has a sample to fan out
DirFanOut(kind) ==
    /\ dirLog.peer
    /\ Call(kind, IF kind = "audio" THEN "write_audio_sample" ELSE "write_video_sample", 0)
    /\ dirLog' = [dirLog EXCEPT !.ops = @ + 1]

\* the ICE state callback sees Connected: `inner_ice.take()`
DirIceConnected ==
    /\ dirLog.inner_ice
    /\ Call("ice", "call_connected_callback", 0)
    /\ dirLog' = [dirLog EXCEPT !.ops = @ + 1, !.inner_ice = FALSE]

\* `let mut map = self.map.write().await;` returns (read() in view_mirrors)
DirAcquireMap(t) ==
    /\ dirTask[t].pc = "want_map"
    /\ IF dirTask[t].op = "view_mirrors"
       THEN /\ Grantable(guards, "map", t, "read")
            /\ guards' = Grant(guards, "map", t, "read")
            /\ dirTask' = [dirTask EXCEPT ![t].pc = "cs", ![t].seen = Some(<<map, mirrors>>)]
       ELSE /\ Grantable(guards, "map", t, "write")
            /\ guards' = Enqueue(Grant(guards, "map", t, "write"), "mirrors", t)
            /\ dirTask' = [dirTask EXCEPT ![t].pc = "want_mirrors"]
    /\ UNCHANGED <<map, mirrors, active, dirLog>>

\* `let mut deque = self.mirrors.write().await;` returns
DirAcquireMirrors(t) ==
    /\ dirTask[t].pc = "want_mirrors"
    /\ Grantable(guards, "mirrors", t, "write")
    /\ guards' = Grant(guards, "mirrors", t, "write")
    /\ dirTask' = [dirTask EXCEPT ![t].pc = "cs", ![t].seen = Some(<<map, mirrors>>)]
    /\ UNCHANGED <<map, mirrors, active, dirLog>>

\* the body of the method under its guards, up to the drop of the guards at
\* its end. After add_mirror the command loop goes on to
\* `inner.call_connected_callback().await` if `active`
DirSection(t, fails) ==
    /\ dirTask[t].pc = "cs"
    /\ LET op == dirTask[t].op
           r == CASE op = "add_mirror" -> add_mirror(map, mirrors)
                  [] op = "remove_mirror" -> remove_mirror(map, mirrors, dirTask[t].id)
                  [] op = "write_audio_sample" -> write_audio_sample(map, mirrors, fails)
                  [] op = "write_video_sample" -> write_video_sample(map, mirrors, fails)
                  [] op = "call_connected_callback" ->
                        call_connected_callback(map, mirrors, fails)
                  [] OTHER -> [map |-> map, mirrors |-> mirrors]
       IN  /\ fails \subseteq Ids(mirrors)
           /\ op \notin Passes => fails = {}
           /\ map' = r.map
           /\ mirrors' = r.mirrors
           /\ IF op = "add_mirror" /\ active
              THEN /\ guards' = Enqueue(Release(guards, t), "map", t)
                   /\ dirTask' = [dirTask EXCEPT ![t] = [pc |-> "want_map",
                                                         op |-> "call_connected_callback",
                                                         id |-> 0, seen |-> None]]
                   /\ dirLog' = [dirLog EXCEPT !.after_add = Some(<<r.map, r.mirrors>>)]
              ELSE /\ guards' = Release(guards, t)
                   /\ dirTask' = [dirTask EXCEPT ![t] = IdleTask]
                   /\ dirLog' = [dirLog EXCEPT !.after_add =
                                     IF t = "command" THEN None ELSE @]
    /\ UNCHANGED active

NextDir ==
    /\ \/ DirNewRequest
       \/ DirEndRequest
       \/ \E op \in {"add_mirror", "remove_mirror", "view_mirrors"} :
              \E id \in 0..(MaxMirrors - 1) : DirCommand(op, id)
       \/ \E kind \in Kinds : DirFanOut(kind)
       \/ DirIceConnected
       \/ \E t \in DirTasks : DirAcquireMap(t)
       \/ \E t \in DirTasks : DirAcquireMirrors(t)
       \/ \E t \in DirTasks : \E fails \in SUBSET (0..(MaxMirrors - 1)) : DirSection(t, fails)
    /\ UNCHANGED outsideDir

\* tokio grants its locks in the order of the requests and polls every
\* spawned task that can run
DirFairness ==
    \A t \in DirTasks :
        /\ WF_vars(DirAcquireMap(t) /\ UNCHANGED outsideDir)
        /\ WF_vars(DirAcquireMirrors(t) /\ UNCHANGED outsideDir)
        /\ WF_vars((\E fails \in SUBSET (0..(MaxMirrors - 1)) : DirSection(t, fails))
                       /\ UNCHANGED outsideDir)


\* ------------------------------------------------------------ specification
WhipInit ==
    /\ map = <<>>
    /\ mirrors = <<>>
    /\ active = FALSE
    /\ peers = <<>>
    /\ endRequests = 0
    /\ emitted = [k \in Kinds |-> 0]
    /\ accepted = FALSE
    /\ lastOp = NoOp

Init == WhipInit /\ NotifierInit /\ LiveInit /\ DaveInit /\ SpsInit /\ BuildInit /\ SampleInit /\ CodecInit /\ JoinInit /\ EvictInit /\ ConnInit /\ RenegInit /\ InputInit /\ DirInit

Next ==
    /\ \/ \E initOk \in BOOLEAN : NewRequest(initOk)
       \/ EndRequest
       \/ RetrieveMirrors
       \/ NewMirror
       \/ \E id \in 0..MaxMirrors : EndMirror(id)
       \/ \E p \in 1..Len(peers) : \E fails \in SUBSET Ids(mirrors) : AudioSample(p, fails)
       \/ \E p \in 1..Len(peers) : \E fails \in SUBSET Ids(mirrors) : VideoSample(p, fails)
       \/ \E p \in 1..Len(peers) : \E fails \in SUBSET Ids(mirrors) : IceConnected(p, fails)
       \/ \E p \in 1..Len(peers) : IceDisconnected(p)
       \/ \E p \in 1..Len(peers) : IceFailed(p)
    /\ UNCHANGED outsideWhip

Spec == Init /\ [][Next]_vars

\* the command loop is a spawned task that awaits recv in a loop: a command
\* that is queued is received
WhipFairness == WF_vars(EndRequest /\ UNCHANGED outsideWhip)

SpecWhipFair == Spec /\ WhipFairness

SpecNotifier == Init /\ [][NextNotifier]_vars

\* a sub-task that is runnable is scheduled: every await of a loop body ends
\* (sleep, socket send), so the select! is polled again, and a task past its
\* loop runs its tail
NotifierFairness ==
    \A s \in Subsystems :
        /\ WF_vars(PollNotified(s) /\ UNCHANGED outsideNotifier)
        /\ WF_vars(Teardown(s) /\ UNCHANGED outsideNotifier)

SpecNotifierFair == Init /\ [][NextNotifier]_vars /\ NotifierFairness

SpecLive == Init /\ [][NextLive]_vars

SpecDave == Init /\ [][NextDave]_vars

SpecSps == Init /\ [][NextSps]_vars

SpecBuild == Init /\ [][NextBuild]_vars

SpecSample == Init /\ [][NextSampleBuilder]_vars

SpecHotLoop == Init /\ [][NextHotLoop]_vars

SpecCodec == Init /\ [][NextCodec]_vars

SpecJoin == Init /\ [][NextJoin]_vars

\* connect() and the DAVE task are spawned tasks that run when they can,
\* and the voice gateway does send its external sender package
JoinFairness ==
    /\ WF_vars(EndpointBinary /\ UNCHANGED outsideJoin)
    /\ WF_vars((ConnectRemote \/ ConnectConnected \/ ConnectSendOpCode4
                \/ ConnectSendExternal \/ ConnectInstance) /\ UNCHANGED outsideJoin)
    /\ WF_vars((\E ok \in BOOLEAN : DaveRecv(ok)) /\ UNCHANGED outsideJoin)

SpecJoinFair == SpecJoin /\ JoinFairness

SpecEvict == Init /\ [][NextEvict]_vars

\* the sub-tasks are scheduled as in SpecNotifierFair, and the fan-out pass
\* that called the sink goes on
SpecEvictFair == SpecEvict /\ NotifierFairness /\ WF_vars(Evict /\ UNCHANGED outsideEvict)

SpecConn == Init /\ [][NextConn]_vars

\* the sub-tasks are spawned tokio tasks: a notified() branch that is ready
\* is taken, and a task past its loop runs to its end
SpecConnFair == SpecConn /\ NotifierFairness

SpecReneg == Init /\ [][NextReneg]_vars

\* the renegotiation task is a spawned tokio task: its sleep elapses and each
\* of its awaits returns
RenegFairness ==
    /\ WF_vars(RenegWake /\ UNCHANGED outsideReneg)
    /\ WF_vars((\E ok \in BOOLEAN : RenegInactive(ok)) /\ UNCHANGED outsideReneg)
    /\ WF_vars((\E ok \in BOOLEAN : RenegAudioSender(ok)) /\ UNCHANGED outsideReneg)
    /\ WF_vars(RenegAudioInstance /\ UNCHANGED outsideReneg)
    /\ WF_vars((\E ok \in BOOLEAN : RenegVideoSender(ok)) /\ UNCHANGED outsideReneg)
    /\ WF_vars(RenegVideoInstance /\ UNCHANGED outsideReneg)
    /\ WF_vars((\E ok \in BOOLEAN : RenegRecv(ok)) /\ UNCHANGED outsideReneg)

SpecRenegFair == SpecReneg /\ RenegFairness

SpecInput == Init /\ [][NextInput]_vars
SpecDir == Init /\ [][NextDir]_vars
SpecDirFair == SpecDir /\ DirFairness

\* ================================================================== claims
Range(f) == {f[i] : i \in 1..Len(f)}
Occurrences(q, id) == Cardinality({i \in 1..Len(q) : q[i] = id})
Without(q, S) == SelectSeq(q, LAMBDA id : id \notin S)
Ascending(q) == \A i \in 1..Len(q) : \A j \in 1..Len(q) : i < j => q[i] < q[j]
Alive(m, id) == id < Len(m) /\ IsSome(m[id + 1])
SlotIds == 0..(MaxMirrors - 1)
IsPass(o) == o.op \in Kinds

\* C1: mirror directory invariant. For every id, map[id] = Some(pos) iff the
\* queue holds exactly one entry with that id and it sits at index pos, and
\* map[id] = None iff the queue holds no entry with that id.
C1_DirectoryInvariant ==
    \A id \in 0..(Len(map) - 1) :
        /\ IsSome(map[id + 1]) <=>
              /\ Occurrences(mirrors, id) = 1
              /\ \E pos \in 0..(Len(mirrors) - 1) :
                    mirrors[pos + 1] = id /\ map[id + 1] = Some(pos)
        /\ map[id + 1] = None <=> id \notin Range(mirrors)

\* C2: EndMirror(id) on a live slot removes from the queue exactly the sink
\* admitted under id, calls close() on that sink only, sets map[id] = None,
\* and every other live mirror stays queued and reported alive.
C2_EndMirrorRemovesOwnSink ==
    [][\A id \in SlotIds :
          (lastOp'.op = "EndMirror" /\ lastOp'.id = id /\ Alive(map, id)) =>
              /\ id \in Range(mirrors)
              /\ mirrors' = Without(mirrors, {id})
              /\ lastOp'.closed = {id}
              /\ map'[id + 1] = None
              /\ \A j \in SlotIds \ {id} : Alive(map, j) => Alive(map', j)]_vars

\* C3: a slot goes alive -> dead once. Once view_mirrors reports false for an
\* id it reports false for it in every later state, and no later fan-out pass
\* writes to the sink of that slot.
C3_DeadStaysDead ==
    [][\A id \in SlotIds :
          (id < Len(map) /\ ~Alive(map, id)) =>
              /\ ~Alive(map', id)
              /\ IsPass(lastOp') => id \notin Range(lastOp'.visited)]_vars

\* C4: a mirror whose write fails during a fan-out pass is out of the queue
\* and reported false at the end of that pass, every mirror whose write
\* succeeded is still queued, in the same relative order, and reported true.
C4_FailingMirrorsEvictedInPass ==
    [][IsPass(lastOp') =>
          /\ \A id \in Range(mirrors) :
                IF id \in lastOp'.fails
                THEN id \notin Range(mirrors') /\ ~view_mirrors(map')[id + 1]
                ELSE id \in Range(mirrors') /\ view_mirrors(map')[id + 1]
          /\ mirrors' = Without(mirrors, lastOp'.fails)]_vars

\* C4 witness: mirrors 0, 1, 2 with the write of 1 failing
C4_Witness ==
    /\ IsPass(lastOp)
    /\ lastOp.visited = <<0, 1, 2>>
    /\ lastOp.fails = {1}
    /\ mirrors = <<0, 2>>
    /\ view_mirrors(map) = <<TRUE, FALSE, TRUE>>

C6_MapAppendOnly ==
    [][/\ Len(view_mirrors(map')) >= Len(view_mirrors(map))
       /\ lastOp'.op = "NewMirror" =>
             /\ lastOp'.id = Len(view_mirrors(map))
             /\ Len(view_mirrors(map')) = Len(view_mirrors(map)) + 1
             /\ lastOp'.id \notin Range(mirrors)]_vars

\* C6 witness: a third mirror is admitted as id 2 while an earlier slot is dead
C6_Witness ==
    /\ lastOp.op = "NewMirror"
    /\ lastOp.id = 2
    /\ Len(map) = 3
    /\ \E id \in {0, 1} : ~Alive(map, id)

\* C7: publisher_active is true iff a NewRequest was answered 201 and no
\* EndRequest has been processed since.
C7_ActiveIffAccepted == active <=> accepted

\* C7 witness: a second publisher was accepted after an EndRequest ended the first
C7_Witness ==
    /\ active
    /\ lastOp.op = "NewRequest"
    /\ lastOp.resp = "201"
    /\ lastOp.peer = 2

\* C8: while publisher_active is true, a NewRequest creates no ingress peer,
\* sends no response and leaves publisher_active and the directory unchanged.
C8_RequestDroppedWhileActive ==
    [][(lastOp'.op = "NewRequest" /\ active) =>
          /\ peers' = peers
          /\ lastOp'.resp = "none"
          /\ active' = active
          /\ map' = map
          /\ mirrors' = mirrors]_vars

\* C8 witness: a NewRequest was dropped while a publisher was active
C8_Witness ==
    /\ lastOp.op = "NewRequest"
    /\ lastOp.resp = "none"
    /\ active
    /\ Len(peers) = 1

C10_CloseIdempotent ==
    /\ closeCalls >= 1 =>
          /\ IsClosed
          /\ \A s \in Subsystems :
                handle[s] = "NOTIFIED" \/ task[s].fut = "notified" \/ woken[s] >= 1
    /\ \A s \in Subsystems : woken[s] <= 1

\* C10 witness: close() was called at least twice and every sub-task has
\* observed its handle
C10_Witness ==
    /\ closeCalls >= 2
    /\ IsClosed
    /\ \A s \in Subsystems : woken[s] = 1

C12_StoppedImpliesClosed ==
    (\E s \in Subsystems : task[s].pc = "stopped") => IsClosed

\* C13: once the notifier is closed, a call into DiscordLive that begins
\* returns an error at once: it does not go on to the instance lock, a track
\* write or an egress send, and whatever acquires the lock, writes a sample
\* or sends on the egress channel belongs to a call that began before close.
C13_ClosedFailsFast ==
    [][/\ (IsClosed /\ live'.n # live.n) =>
             /\ live'.ret = "Err"
             /\ live'.pc = "idle"
             /\ liveLog' = liveLog
       /\ liveLog' # liveLog => ~live.entryClosed]_vars

\* C13 witness: a sample was written and a callback sent before close, and a
\* call made after close has returned an error
C13_Witness ==
    /\ IsClosed
    /\ liveLog.writes >= 1
    /\ liveLog.egress >= 1
    /\ live.entryClosed
    /\ live.ret = "Err"
    /\ live.pc = "idle"

\* C16 (as stated): with a non-zero protocol version every sample written to
\* the outbound track is encrypted; raw bytes are written only at version 0.
C16_NonZeroVersionEncrypted ==
    liveLog.last.kind # "none" =>
        /\ liveLog.last.version # 0 => liveLog.last.bytes = "encrypted"
        /\ liveLog.last.bytes = "raw" => liveLog.last.version = 0

\* C16 (amended): a written sample is encrypted exactly when the protocol
\* version is non-zero, the session is ready and encrypt succeeded; at version
\* 0, with a session that is not ready, or after a failed encrypt, the raw
\* bytes are written.
C16_EncryptedIffReadyAndEncryptOk ==
    liveLog.last.kind # "none" =>
        /\ liveLog.last.bytes \in {"raw", "encrypted"}
        /\ liveLog.last.bytes = "encrypted" <=>
              (liveLog.last.version # 0 /\ liveLog.last.ready /\ liveLog.last.encOk)

\* C16 witness: a video sample written raw at a non-zero version because the
\* encrypt failed on a ready session
C16_Witness ==
    /\ liveLog.last.kind = "video"
    /\ liveLog.last.version # 0
    /\ liveLog.last.ready
    /\ ~liveLog.last.encOk
    /\ liveLog.last.bytes = "raw"

\* C17: every written video sample that contains an SPS carries the rewritten
\* SPS, encrypted or not.
C17_SpsAlwaysRewritten ==
    (liveLog.last.kind = "video" /\ liveLog.last.hasSps) => liveLog.last.sps = "rewritten"

\* C14 (as stated): for every non-zero transition id that the coordinator has
\* processed successfully, op-23 was sent exactly once, whatever the sequence
\* of OpCode21, commit, welcome and OpCode22 events.
C14_ReadySentExactlyOnce ==
    \A tid \in Tids \ {0} : daveLog.announced[tid] >= 1 => daveLog.sent[tid] = 1

\* C14 (amended): every OpCode21, commit or welcome event with a non-zero
\* transition id that is processed successfully sends exactly one op-23 for
\* its transition id, and nothing else sends one: no op-23 for transition 0,
\* for a commit or welcome that fails to process, or for OpCode22.
C14_ReadySentOncePerAnnouncement ==
    [][daveLog'.events # daveLog.events =>
          LET e == daveLog'.last IN
          daveLog'.sent =
              [daveLog.sent EXCEPT ![e.tid] =
                  IF e.ev \in Announcements /\ e.tid # 0 /\ e.ok /\ e.sendOk
                  THEN @ + 1 ELSE @]]_vars

\* C14 witness: the same transition id was announced by two events and op-23
\* was sent for it twice
C14_Witness ==
    /\ daveLog.sent[1] = 2
    /\ daveLog.announced[1] = 2
    /\ daveLog.last.ev = "Welcome"
    /\ daveLog.last.tid = 1

\* C15: executing a pending transition tid (OpCode22(tid), or OpCode21 with
\* tid 0) removes pending_transitions[tid] and sets the coordinator's and the
\* instance's protocol version to its target; if the version thereby changes
\* to 0, is_downgraded becomes true; otherwise, if tid > 0 and is_downgraded
\* was true, passthrough is enabled with a 10-packet grace and is_downgraded
\* becomes false; otherwise both are left as they were.
C15_ExecutePendingTransition ==
    [][LET e == daveLog'.last
           executes == /\ daveLog'.events # daveLog.events
                       /\ \/ e.ev = "OpCode22" /\ IsSome(dave.pending_transitions[e.tid])
                          \/ e.ev = "OpCode21" /\ e.tid = 0
           target == IF e.ev = "OpCode21" THEN e.version
                     ELSE Unwrap(dave.pending_transitions[e.tid]) IN
       executes =>
          /\ dave'.pending_transitions = [dave.pending_transitions EXCEPT ![e.tid] = None]
          /\ dave'.dave_protocol_version = target
          /\ dave_instance'.dave_protocol_version = target
          /\ IF target = 0 /\ dave.dave_protocol_version # 0
             THEN /\ dave'.is_downgraded
                  /\ dave_instance'.passthrough = dave_instance.passthrough
             ELSE IF e.tid > 0 /\ dave.is_downgraded
             THEN /\ ~dave'.is_downgraded
                  /\ dave_instance'.passthrough = 10
             ELSE /\ dave'.is_downgraded = dave.is_downgraded
                  /\ dave_instance'.passthrough = dave_instance.passthrough]_vars

\* C15 witness: after a downgrade to version 0 was executed, transition 2
\* staged at version 1 has been executed: version 1 on both sides, not
\* downgraded, 10-packet grace
C15_Witness ==
    /\ daveLog.last.ev = "OpCode22"
    /\ daveLog.last.tid = 2
    /\ daveLog.events = 4
    /\ dave.dave_protocol_version = 1
    /\ dave_instance.dave_protocol_version = 1
    /\ ~dave.is_downgraded
    /\ dave_instance.passthrough = 10
    /\ ~IsSome(dave.pending_transitions[2])

\* C18: an SPS parsed with bitstream_restriction_flag false (absent VUI
\* included) is written so that it decodes with the flag true, the fixed
\* restriction fields and max_dec_frame_buffering = max_num_ref_frames, all
\* other fields unchanged; an SPS whose flag is already true is not modified.
C18_VuiFixDecodes ==
    sps.pc = "decoded" =>
        IF ~sps.parsed.vui_parameters.bitstream_restriction_flag
        THEN /\ sps.decoded.vui_parameters =
                   Restriction(TRUE, TRUE, 2, 1, 16, 16, 0, sps.parsed.max_num_ref_frames)
             /\ sps.decoded.max_num_ref_frames = sps.parsed.max_num_ref_frames
             /\ sps.decoded.frame_cropping_flag = sps.parsed.frame_cropping_flag
             /\ sps.decoded.pic_struct_present_flag = sps.parsed.pic_struct_present_flag
        ELSE sps.decoded = sps.parsed

\* the chunks of the traces the builder has sent, in the order it sent them
TraceLines == [i \in 1..Len(builder.traces) |-> Display(builder.traces[i])]
IsPrefix(s, q) == Len(s) <= Len(q) /\ \A i \in 1..Len(s) : s[i] = q[i]
TerminalLines == {"success", "error: "}

\* C19: the response body is one line per trace the builder sent, in the
\* order sent and none lost, then exactly one terminal line, `success` only
\* with the mirror registered, and nothing after it.
C19_BodyIsTracesThenTerminal ==
    /\ stream.pc # "done" => IsPrefix(body, TraceLines)
    /\ stream.pc = "done" =>
          /\ body = Append(TraceLines, body[Len(body)])
          /\ body[Len(body)] \in TerminalLines
          /\ body[Len(body)] = "success" => stream.registered

\* C20: connect sends its traces in the fixed order VoiceConnecting,
\* StreamCreating, EndpointWSConnecting, EndpointRTCCreating,
\* EndpointRTCNegotiation, EndpointWSSDP, EndpointRTCConnecting,
\* EndpointDAVECreating, each at most once: what it has sent is always a
\* prefix of that sequence, all eight when it returned Ok, and the k-th trace
\* is sent only after the k-th await (the previous stage's hand-off) was
\* received.
C20_TraceOrder ==
    LET order == <<"VoiceConnecting", "StreamCreating", "EndpointWSConnecting",
                   "EndpointRTCCreating", "EndpointRTCNegotiation", "EndpointWSSDP",
                   "EndpointRTCConnecting", "EndpointDAVECreating">> IN
    /\ IsPrefix(builder.traces, order)
    /\ builder.status = "ok" => builder.traces = order
    /\ \A k \in 1..Len(builder.traces) : handoff[k] = "received"
    /\ \A k \in 1..Len(Awaits) : handoff[k] = "received" => k <= Len(builder.traces) + 1

\* C20 witness: connect returned Ok with all eight traces sent
C20_Witness ==
    /\ builder.status = "ok"
    /\ Len(builder.traces) = 8
    /\ handoff[Len(Awaits)] = "received"


\* ------------------------------------------------------------ C21
\* the stream pushed so far is in strictly increasing sequence order with no gaps
InOrderStream ==
    \A i \in 1..Len(sbLog.pushed) : sbLog.pushed[i].seq = sbLog.pushed[1].seq + i - 1

\* the head-to-tail segments of the whole stream pushed, those whose packets all depacketize
GoodSegments ==
    SelectSeq(update_segments(sbLog.pushed),
              LAMBDA g : \A i \in g[1]..g[2] : ~sbLog.pushed[i + 1].err)
SegmentData(g) == Concat(sbLog.pushed, g[1], g[2])
SegmentTime(g) == sbLog.pushed[g[1] + 1].timestamp

RECURSIVE LastPositiveStep(_)
\* the timestamp step from segment k to its successor when it is positive,
\* otherwise the last positive step before it, 0 when there is none
LastPositiveStep(k) ==
    IF k = 0 THEN 0
    ELSE IF SegmentTime(GoodSegments[k + 1]) > SegmentTime(GoodSegments[k])
    THEN SegmentTime(GoodSegments[k + 1]) - SegmentTime(GoodSegments[k])
    ELSE LastPositiveStep(k - 1)

ReorderedArrival == <<Packet(1, "single"), Packet(3, "single"), Packet(2, "single")>>

\* C22: on a builder with hold_back = 2, once the Opus packets 1, 3, 2 were
\* pushed in that order, the first two samples pop returns are those of
\* packets 1 and 2; and with hold_back > 0 the samples returned never go
\* backwards in sequence number.
C22_ReorderedEmittedAscending ==
    IsSome(sb) /\ Unwrap(sb).hold_back > 0 =>
        /\ Unwrap(sb).hold_back = 2 /\ sbLog.pushed = ReorderedArrival /\ Len(sbLog.returned) >= 2
               => sbLog.returned[1].data = <<1>> /\ sbLog.returned[2].data = <<2>>
        /\ \A i, j \in 1..Len(sbLog.returned) :
               i < j => sbLog.returned[i].data[1] <= sbLog.returned[j].data[1]

\* ------------------------------------------------------------ C23
\* a step that is one call of pop
PopStep == IsSome(sb) /\ sbLog'.pops = sbLog.pops + 1

\* C23: with hold_back = 0 every pop that finds a complete segment drops the
\* entries 0..=stop of the first segment and advances last_emitted to the
\* sequence number at stop, contiguous or not, and leaves nothing cached.
C23_HoldBackZeroEmits ==
    [][PopStep /\ Unwrap(sb).hold_back = 0 /\ update_segments(Unwrap(sb).queue) # <<>> =>
           LET stop == update_segments(Unwrap(sb).queue)[1][2]
           IN  /\ Unwrap(sb').queue = Drain(Unwrap(sb).queue, stop)
               /\ Unwrap(sb').last_emitted = Some(Unwrap(sb).queue[stop + 1].seq)
               /\ Unwrap(sb').depack_cache = None]_vars

\* hold_back = 0: packet 3 was emitted right after packet 1 although packet 2 never arrived
C23_Witness ==
    /\ IsSome(sb) /\ Unwrap(sb).hold_back = 0
    /\ sbLog.pushed = <<Packet(1, "single"), Packet(3, "single")>>
    /\ Unwrap(sb).last_emitted = Some(3)
    /\ Len(sbLog.returned) = 1 /\ sbLog.returned[1].data = <<1>>


\* ------------------------------------------------------------ C24
\* the last packet fed was the end-bit fragment of a run of FU-A fragments that began with a start-bit fragment
FuaRunEnded ==
    /\ IsSome(fuaLog.run)
    /\ Len(fuaLog.packet) >= 2 /\ NaluType(fuaLog.packet[1]) = 28 /\ FuEnd(fuaLog.packet[2])

\* C24: a fragment of a run that is not its last returns empty output; the
\* end-bit fragment returns the prefix (start code, or length in AVC mode),
\* the byte nalu_ref_idc | fragment_type, and the bodies of exactly the
\* fragments from the start-bit fragment on.
C24_FuaRunReassembled ==
    /\ IsSome(fuaLog.run) /\ ~FuaRunEnded => fuaLog.ret = Some(<<>>)
    /\ FuaRunEnded =>
           fuaLog.ret = Some(NaluPrefix(Unwrap(h264).is_avc, Len(Unwrap(fuaLog.run)) + 1)
                             \o <<NaluRefIdc(fuaLog.packet[1]) + NaluType(fuaLog.packet[2])>>
                             \o Unwrap(fuaLog.run))

\* ------------------------------------------------------------ C25
\* the peers whose hot loops hand samples to the fan-out
Feeding == {p \in 1..Len(peers) : peers[p].ice = "connected"}

\* C25: at most one ingress peer feeds samples to the mirrors at any time.
C25_SinglePublisher == Cardinality(Feeding) <= 1

\* ------------------------------------------------------------ C26
\* the peer of the publisher admitted last has ended: its ICE state went to
\* Disconnected, or to Failed, which closes the peer
PublisherEnded ==
    peers # <<>> /\ peers[Len(peers)].ice \in {"disconnected", "closed"}

\* C26: whenever the peer of the admitted publisher has ended,
\* publisher_active is eventually false.
C26_AdmissionRecovers == PublisherEnded ~> ~active


\* ------------------------------------------------------------ C27
\* C27: when the heartbeat task leaves its loop and terminates, as it does
\* on an op-6 ack whose nonce differs from the one sent, the notifier is
\* closed once it has terminated.
C27_NonceMismatchCloses ==
    [][task["heartbeat"].pc = "loop" /\ task'["heartbeat"].pc = "stopped" => IsClosed']_vars


\* ------------------------------------------------------------ C28
\* C28: in a session with DAVE (version above 0) no binary message is
\* discarded for want of an instance, and a later MLS binary message is
\* applied to the session only after the external sender payload (the first
\* binary message) was applied.
C28_ExternalSenderFirst ==
    IsSome(joinLog.op4) /\ Unwrap(joinLog.op4) > 0 =>
        /\ joinLog.discarded = {}
        /\ \A i \in 1..Len(joinLog.applied) :
               joinLog.applied[i] # 1 => \E j \in 1..(i - 1) : joinLog.applied[j] = 1

\* ------------------------------------------------------------ C29
\* C29: a key package is sent only for a version above 0, and once connect()
\* waits for the instance after `creating new dave session`, it gets past
\* that await, for every dave_protocol_version of the session description.
C29_InstanceHandedOver ==
    /\ [](joinLog.key_packages > 0 => join.version > 0)
    /\ (join.connect = "instance_rx") ~> (join.connect \in {"done", "failed"})


\* ------------------------------------------------------------ C30
\* C30: once the fan-out has evicted the sink, its notifier is eventually
\* closed and its gateway, endpoint, heartbeat and DAVE tasks have terminated.
C30_EvictedSinkReleased ==
    evicted ~> (IsClosed /\ \A s \in Subsystems : task[s].pc = "stopped")

\* connect has returned an error after the four sub-tasks were started, and
\* each of them is in its loop
ConnectFailed == conn.result = "err" /\ \A s \in Subsystems : task[s].pc = "loop"

\* C31: once connect has returned an error at a stage after the sub-tasks
\* were started (here: all four running), every sub-task eventually
\* terminates, which is what closing the mirror's notifier brings about: no
\* task of the partially built session is left in its loop.
C31_FailedConnectCloses ==
    ConnectFailed ~> (\A s \in Subsystems : task[s].pc = "stopped")

\* ------------------------------------------------------------ C32
\* C32: in the hot loop (pop after every push until it yields nothing), for
\* every segment pop emits, the timestamp and bytes it hands on are the
\* depacketization of that segment's own entries; hence the samples returned
\* are, in order, the data of the emitted segments: none taken from another
\* segment, none twice, none lost.
C32_OwnSegmentData ==
    /\ sbLog.used = sbLog.own
    /\ \A i \in 1..Len(sbLog.returned) : sbLog.returned[i].data = sbLog.own[i].data

\* ------------------------------------------------------------ C33
\* a step that handles a commit or welcome whose processing failed, on a live egress channel
InvalidCommitStep ==
    /\ daveLog'.events # daveLog.events
    /\ daveLog'.last.ev \in {"Commit", "Welcome"}
    /\ ~daveLog'.last.ok
    /\ daveLog'.last.sendOk

StepsPrefix(s, q) == Len(s) <= Len(q) /\ \A i \in 1..Len(s) : s[i] = q[i]

\* order: the steps an iteration has performed are a prefix of inactive
\* SDP, audio sender, audio instance, video sender, video instance, recv SDP;
\* at every point between iterations the remote description is the recv SDP
\* and the instance's tracks are the ones attached to the senders.
RenegotiationOrder ==
    /\ StepsPrefix(reneg.steps, RenegOrder)
    /\ reneg.at = "sleep" =>
           /\ reneg.steps \in {<<>>, RenegOrder}
           /\ reneg.remote = "recv"
           /\ reneg.instance = reneg.sender

\* failure: a step that fails ends the loop, and the ended loop
\* performs no step: remote description, senders and instance stay as they are.
FailureEndsLoop ==
    [][/\ (reneg'.steps = reneg.steps /\ reneg'.at # reneg.at /\ reneg.at # "sleep")
           => reneg'.at = "stopped"
       /\ reneg.at = "stopped" =>
              /\ reneg'.at = "stopped" /\ reneg'.steps = reneg.steps
              /\ reneg'.remote = reneg.remote /\ reneg'.sender = reneg.sender
              /\ reneg'.instance = reneg.instance]_vars

\* C34: every renegotiation iteration performs, in order, remote := inactive
\* SDP, audio sender and instance audio track, video sender and instance
\* video track, remote := recv SDP; a failing step ends the loop, which then
\* performs no later step; after every completed iteration the remote
\* description is the recv SDP and the instance holds the senders' tracks.
C34_Renegotiation == []RenegotiationOrder /\ FailureEndsLoop

\* two iterations have completed and a third has failed at its video sender
C34_Witness ==
    /\ reneg.iterations = 2
    /\ reneg.at = "stopped"
    /\ reneg.steps = <<"inactive", "audio_sender", "audio_instance">>
    /\ reneg.sender.audio = 3 /\ reneg.instance.audio = 3
    /\ reneg.sender.video = 2 /\ reneg.remote = "inactive"

\* ------------------------------------------------------------ C39
\* C39: once close() was called on the mirror, the renegotiation task
\* eventually ends (and with it its references to the peer connection and
\* the DAVE instance are released).
C39_RenegotiationEndsAfterClose == is_closed ~> reneg.at = "stopped"

\* ------------------------------------------------------------ C35
\* a step of the hot loop that reads and pushes one packet
ReadStep == IsSome(sb) /\ Len(sbLog'.pushed) = Len(sbLog.pushed) + 1

\* C35: with hold_back > 0, push of a packet whose sequence number is <= the
\* last emitted one returns false and leaves the queue unchanged, and the hot
\* loop then goes on with a fresh empty builder; push of any other packet
\* returns true, an exact duplicate is not inserted, and a new packet is
\* inserted at its place in sequence order.
C35_LatePacketResetsBuilder ==
    [][ReadStep /\ Unwrap(sb).hold_back > 0 =>
          LET s == Unwrap(sb)
              p == sbLog'.pushed[Len(sbLog'.pushed)]
              late == IsSome(s.last_emitted) /\ p.seq <= Unwrap(s.last_emitted)
              dup == \E i \in 1..Len(s.queue) : s.queue[i].seq = p.seq
              q == Unwrap(sb').queue
          IN  /\ late => /\ ~push(s, p).ret
                         /\ push(s, p).builder.queue = s.queue
                         /\ sbLog'.last = "push_false"
                         /\ sb' = Some(SampleBuilder_new(s.hold_back, s.sample_rate))
              /\ ~late => /\ push(s, p).ret
                          /\ sbLog'.last = "push"
                          /\ dup => q = s.queue
                          /\ ~dup => /\ Len(q) = Len(s.queue) + 1
                                     /\ \A i \in 1..(Len(q) - 1) : q[i].seq < q[i + 1].seq
                                     /\ \E i \in 1..Len(q) :
                                            q[i] = p /\ s.queue = [j \in 1..Len(s.queue) |->
                                                           IF j < i THEN q[j] ELSE q[j + 1]]]_vars

\* a late packet has just been read after samples were emitted: the loop holds a fresh builder
C35_Witness ==
    /\ IsSome(sb) /\ Unwrap(sb).hold_back > 0
    /\ sbLog.last = "push_false"
    /\ Len(sbLog.returned) >= 1
    /\ Unwrap(sb) = SampleBuilder_new(Unwrap(sb).hold_back, 48000)

\* ------------------------------------------------------------ C36
\* the depacketizer is run on the first segment of s (no cached result is
\* taken for it) and returns an error for one of its entries
FirstSegmentFails(s) ==
    LET segments == update_segments(s.queue)
    IN  /\ segments # <<>>
        /\ ~(IsSome(s.depack_cache) /\ Unwrap(s.depack_cache).range = segments[1])
        /\ \E i \in segments[1][1]..segments[1][2] : s.queue[i + 1].err

\* C36: when the depacketizer returns an error for an entry of the first
\* segment, pop returns no sample, removes the queue entries 0..=stop, sets
\* last_emitted to the sequence number at stop and leaves `ready` unchanged.
C36_FailedSegmentDiscarded ==
    [][PopStep /\ FirstSegmentFails(Unwrap(sb)) =>
          LET s == Unwrap(sb)
              stop == update_segments(s.queue)[1][2]
          IN  /\ sbLog'.last = "pop_none"
              /\ sbLog'.returned = sbLog.returned
              /\ Unwrap(sb').queue = SubSeq(s.queue, stop + 2, Len(s.queue))
              /\ Unwrap(sb').last_emitted = Some(s.queue[stop + 1].seq)
              /\ Unwrap(sb').ready = s.ready]_vars

\* packet 2 failed to depacketize and was discarded; packet 3 was emitted after it, which returned the sample of packet 1
C36_Witness ==
    /\ IsSome(sb)
    /\ sbLog.pushed = <<Packet(1, "single"), Packet(2, "bad"), Packet(3, "single")>>
    /\ Unwrap(sb).last_emitted = Some(3)
    /\ Len(sbLog.returned) = 1 /\ sbLog.returned[1].data = <<1>>
    /\ Unwrap(sb).ready = Some([timestamp |-> 3, data |-> <<3>>])

\* ------------------------------------------------------------ C37
\* C37: no input makes a task of the mirror panic: the DAVE task handles a
\* binary message of any length, and write_video_sample a video sample of
\* any length and content, without an out-of-bounds index, an arithmetic
\* overflow or a failed unwrap.
C37_NoInputPanics == fed.dave # "panicked" /\ fed.writer # "panicked"

\* ------------------------------------------------------------ C38
\* C38: admitting a mirror does not disturb the mirrors already admitted: by
\* a NewMirror step no mirror that was queued before it is evicted or reported
\* dead, and none of them has its connected-callback invoked again.
C38_NewMirrorLeavesOthers ==
    [][lastOp'.op = "NewMirror" =>
          \A id \in Ids(mirrors) :
              /\ id \in Ids(mirrors')
              /\ Alive(map', id)
              /\ id \notin Range(lastOp'.visited)]_vars

\* ------------------------------------------------------------ C40
InSection(t) == dirTask[t].pc = "cs"
Writing(t) == InSection(t) /\ dirTask[t].op # "view_mirrors"
Waiting(t) == dirTask[t].pc \in {"want_map", "want_mirrors"}

\* a task that updates the directory is alone in it
MutualExclusion ==
    \A t, u \in DirTasks : (t # u /\ Writing(t)) => ~InSection(u)

\* the queue lock is requested and held only under the map lock
LockOrder ==
    \A t \in DirTasks :
        (Holds(guards, "mirrors", t) \/ dirTask[t].pc = "want_mirrors")
            => Holds(guards, "map", t)

\* a method works on the directory it found when it got its guards
SectionAtomic ==
    \A t \in DirTasks : InSection(t) => dirTask[t].seen = Some(<<map, mirrors>>)

\* the connected-callback pass of NewMirror finds the directory as the
\* add_mirror of the same command left it
OperationAtomic ==
    (dirTask["command"].op = "call_connected_callback" /\ InSection("command"))
        => dirLog.after_add = Some(<<map, mirrors>>)

\* a task that asked for a lock of the directory gets it
NoTaskWaitsForever == \A t \in DirTasks : Waiting(t) ~> ~Waiting(t)

\* C40: accesses to the mirror directory are mutually exclusive and
\* deadlock-free: under every interleaving of the command loop, the audio and
\* video fan-out tasks and the ICE Connected callback, each operation sees and
\* updates map and queue atomically, the locks are taken in the order map then
\* queue, and no task waits for a lock forever.
C40_DirectoryExclusive ==
    /\ [](MutualExclusion /\ LockOrder /\ SectionAtomic /\ OperationAtomic)
    /\ NoTaskWaitsForever

====
